---- MODULE Spec2Model ----
(***************************************************************************)
(* TruthCast report export: the primary clarification resolver, the        *)
(* Markdown document composer, the JSON serializer and the blob download   *)
(* of web/src/lib/export.ts (src/unnamed/part_000), the ExportButton       *)
(* dialog that starts the exports (src/unnamed/part_002) and the           *)
(* ErrorBoundary around the simulation view (error-boundary.tsx).          *)
(*                                                                         *)
(* Conventions of the model                                                *)
(*   - a nullable object (T | null | undefined) is a sequence of length    *)
(*     at most one: Null is <<>>, a present object x is <<x>>;             *)
(*   - an absent optional string is the value Undefined; a string is       *)
(*     truthy iff it is neither Undefined nor "";                          *)
(*   - generated_at is a sequence of digits, compared the way              *)
(*     String.prototype.localeCompare orders digit strings (code unit by   *)
(*     code unit, a proper prefix first); a missing generated_at reads as  *)
(*     '' because the code compares (generated_at || '');                  *)
(*   - a document is the sequence of its lines; a line is a tuple whose    *)
(*     head names the template literal that produced it and whose tail     *)
(*     holds the interpolated values, so two lines are equal iff their     *)
(*     text is; interpolated texts are plain (no markup, no line break).   *)
(***************************************************************************)
EXTENDS Integers, Sequences, FiniteSets, TLC

VARIABLES
    data,       \* the ExportData snapshot handed to the export functions
    op,         \* the export function that ran last ("none" before any)
    resolved,   \* result of resolvePrimaryClarification(data.content)
    doc,        \* result of generateMarkdown(data)
    jsonText,   \* result of JSON.stringify(data, null, 2), as its tokens
    parsed,     \* what a reader of the saved file gets from JSON.parse
    pc,         \* the statement downloadBlob executes next
    blob,       \* the Blob handed to downloadBlob
    url,        \* downloadBlob's local url (0 before createObjectURL)
    liveUrls,   \* object URLs created and not yet revoked
    anchors,    \* number of download anchors that are children of document.body
    clicks,     \* the urls whose save was triggered, in order
    created,    \* number of object URLs created so far
    boundaryProps, \* ErrorBoundary: this.props (fallback, title)
    hasError,   \* ErrorBoundary: this.state.hasError
    error,      \* ErrorBoundary: this.state.error (Null, or the caught Error's message)
    rendered,   \* ErrorBoundary: what render() returned last
    logged,     \* ErrorBoundary: the errors componentDidCatch logged, in order
    retries,    \* ErrorBoundary: number of clicks on the retry button
    open,       \* ExportButton: the dialog's open state
    exporting,  \* ExportButton: the exporting state (Null, or the format)
    handlers,   \* ExportButton: the handleExport calls that have not returned
    outcomes    \* ExportButton: how the finished handleExport calls ended

exportVars == <<op, resolved, doc>>
jsonVars == <<jsonText, parsed>>
downloadVars == <<pc, blob, url, liveUrls, anchors, clicks, created>>
boundaryVars == <<boundaryProps, hasError, error, rendered, logged, retries>>
buttonVars == <<open, exporting, handlers, outcomes>>
uiVars == <<boundaryVars, buttonVars>>
vars == <<data, exportVars, jsonVars, downloadVars, uiVars>>

(***************************************************************************)
(* Bounds of the model                                                     *)
(***************************************************************************)
MaxVariants == 3
MaxDownloads == 2
MaxErrors == 3
MaxExports == 3

(***************************************************************************)
(* Values                                                                  *)
(***************************************************************************)
Null == <<>>
Some(x) == <<x>>
IsNull(o) == Len(o) = 0
Get(o) == o[1]

Undefined == "<undefined>"
Truthy(s) == s # Undefined /\ s # ""

Range(s) == {s[i] : i \in 1..Len(s)}

(***************************************************************************)
(* String.prototype.localeCompare on digit strings: -1, 0 or 1.            *)
(***************************************************************************)
RECURSIVE localeCompare(_, _)
localeCompare(a, b) ==
    IF Len(a) = 0 /\ Len(b) = 0 THEN 0
    ELSE IF Len(a) = 0 THEN -1
    ELSE IF Len(b) = 0 THEN 1
    ELSE IF a[1] < b[1] THEN -1
    ELSE IF a[1] > b[1] THEN 1
    ELSE localeCompare(Tail(a), Tail(b))

(***************************************************************************)
(* Array.prototype.sort with the comparator of the code,                   *)
(*   (a, b) => (b.generated_at || '').localeCompare(a.generated_at || '')  *)
(* The sort is stable (ECMAScript 2019): an element moves in front of      *)
(* another only when the comparator is negative.                           *)
(***************************************************************************)
compareGeneratedAtDesc(a, b) == localeCompare(b.generated_at, a.generated_at)

RECURSIVE insertSorted(_, _)
insertSorted(sorted, x) ==
    IF Len(sorted) = 0 THEN <<x>>
    ELSE IF compareGeneratedAtDesc(x, sorted[1]) < 0
         THEN <<x>> \o sorted
         ELSE <<sorted[1]>> \o insertSorted(Tail(sorted), x)

RECURSIVE sortByGeneratedAtDesc(_)
sortByGeneratedAtDesc(list) ==
    IF Len(list) = 0 THEN <<>>
    ELSE insertSorted(sortByGeneratedAtDesc(SubSeq(list, 1, Len(list) - 1)),
                      list[Len(list)])

(***************************************************************************)
(* Array.prototype.find: the first element with the id, or Null.           *)
(***************************************************************************)
RECURSIVE findById(_, _)
findById(list, id) ==
    IF Len(list) = 0 THEN Null
    ELSE IF list[1].id = id THEN Some(list[1])
    ELSE findById(Tail(list), id)

(***************************************************************************)
(* Array.prototype.sort reorders the array it is called on and returns it. *)
(* A heap is a record of the arrays in scope, by the name the code gives   *)
(* them.                                                                   *)
(***************************************************************************)
ArraySort(heap, name) == [heap EXCEPT ![name] = sortByGeneratedAtDesc(@)]

\* as if line 31 were list.sort(...): the comparator sort acts on list itself
ResolveHeapSortingList(list) == ArraySort([list |-> list, copy |-> list], "list")

\* line 31, [...list].sort(...): the spread makes a new array, the sort acts on it
ResolveHeap(list) == ArraySort([list |-> list, copy |-> list], "copy")

(***************************************************************************)
(* resolvePrimaryClarification(content)                                    *)
(***************************************************************************)
resolveLatestAscending(content) ==
    IF IsNull(content) THEN Null
    ELSE LET c == Get(content)
             list == c.clarifications
         IN  IF Truthy(c.primary_clarification_id)
             THEN findById(list, c.primary_clarification_id)
             ELSE LET s == sortByGeneratedAtDesc(list)
                  IN  IF Len(s) = 0 THEN Null ELSE Some(s[Len(s)])

resolvePrimaryClarification(content) ==
    IF IsNull(content) THEN Null
    ELSE LET c == Get(content)
             list == c.clarifications
         IN  IF Truthy(c.primary_clarification_id)
             THEN findById(list, c.primary_clarification_id)
             ELSE LET s == ResolveHeap(list).copy
                  IN  IF Len(s) = 0 THEN Null ELSE Some(s[1])

\* the content draft as resolvePrimaryClarification leaves it
contentAfterResolve(content) ==
    IF IsNull(content) THEN content
    ELSE LET c == Get(content)
         IN  IF Truthy(c.primary_clarification_id) THEN content
             ELSE Some([c EXCEPT !.clarifications = ResolveHeap(c.clarifications).list])

(***************************************************************************)
(* Array helpers: forEach with index that pushes lines, and filter.        *)
(***************************************************************************)
RECURSIVE FlatMapFrom(_, _, _)
FlatMapFrom(F(_, _), s, i) ==
    IF i > Len(s) THEN <<>> ELSE F(s[i], i) \o FlatMapFrom(F, s, i + 1)

FlatMap(F(_, _), s) == FlatMapFrom(F, s, 1)

(***************************************************************************)
(* The label translator of ./i18n (zhText, zhStance, ...): pure functions  *)
(* from a code or key to a display string, kept uninterpreted.             *)
(***************************************************************************)
zhText(x) == <<"zhText", x>>
zhStance(x) == <<"zhStance", x>>
zhSourceType(x) == <<"zhSourceType", x>>
zhDomain(x) == <<"zhDomain", x>>
zhRiskLabel(x) == <<"zhRiskLabel", x>>
zhRiskLevel(x) == <<"zhRiskLevel", x>>
zhScenario(x) == <<"zhScenario", x>>

(***************************************************************************)
(* Number.prototype.toFixed(f) of a non-negative number held in            *)
(* ten-thousandths: let q be the integer for which q / 10^f - x is as      *)
(* close to zero as possible, the larger q on a tie; the result is the     *)
(* decimal text of q with a point before its last f digits, here the       *)
(* integer part and the sequence of the f fraction digits.                 *)
(***************************************************************************)
RECURSIVE Pow10(_)
Pow10(k) == IF k = 0 THEN 1 ELSE 10 * Pow10(k - 1)

FractionDigits(q, f) == [i \in 1..f |-> (q \div Pow10(f - i)) % 10]

toFixedTruncating(n, f) ==
    LET q == n \div Pow10(4 - f)
    IN  <<"toFixed", q \div Pow10(f), FractionDigits(q, f)>>

toFixed(n, f) ==
    LET unit == Pow10(4 - f)
        q == (n + unit \div 2) \div unit
    IN  <<"toFixed", q \div Pow10(f), FractionDigits(q, f)>>

(***************************************************************************)
(* generateMarkdown: the head of the document                              *)
(***************************************************************************)
Blank == <<"">>

TitleSection(d) ==
    << <<"# TruthCast report">>, Blank >>

TimestampSection(d) ==
    << <<"**Exported at**: _", d.exportedAt>>, Blank >>

\* '> ' + inputText.replace(/\n/g, '\n> '): inputText is the sequence of its lines
InputSection(d) ==
    << <<"## Original input">>, Blank >>
    \o FlatMap(LAMBDA l, i : << <<"> _", l>> >>, d.inputText)
    \o <<Blank>>

RiskSnapshotSection(d) ==
    IF IsNull(d.detectData) THEN <<>>
    ELSE LET det == Get(d.detectData)
         IN  << <<"## Risk snapshot">>, Blank,
                <<"| Item | Value |">>,
                <<"|------|-----|">>,
                <<"| Risk label | _ |", zhRiskLabel(det.label)>>,
                <<"| Risk score | _ |", det.score>>,
                <<"| Confidence | _ |", det.confidence>>,
                Blank,
                <<"**Risk reasons**:">>,
                Blank >>
             \o FlatMap(LAMBDA r, i : << <<"- _", zhText(r)>> >>, det.reasons)
             \o <<Blank>>

ClaimTableAlwaysHeaded(d) ==
    << <<"## Claims">>, Blank,
       <<"| ID | Claim |">>,
       <<"|----|----------|">> >>
    \o FlatMap(LAMBDA c, i : << <<"| _ | _ |", c.claim_id, c.claim_text>> >>, d.claims)
    \o <<Blank>>

ClaimTableSection(d) ==
    IF Len(d.claims) > 0
    THEN << <<"## Claims">>, Blank,
            <<"| ID | Claim |">>,
            <<"|----|----------|">> >>
         \o FlatMap(LAMBDA c, i : << <<"| _ | _ |", c.claim_id, c.claim_text>> >>, d.claims)
         \o <<Blank>>
    ELSE <<>>

(***************************************************************************)
(* generateMarkdown: the evidence chain, aligned strategy (lines 103-161)  *)
(***************************************************************************)
AlignedEvidenceEntry(e, idx) ==
    LET isSummary == e.source_type = "web_summary"
        displayTitle == IF isSummary /\ Truthy(e.summary)
                        THEN zhText(e.summary) ELSE zhText(e.title)
    IN  << <<"#### Evidence _: _ _", idx, displayTitle,
             IF isSummary THEN "*(aggregated)*" ELSE "">>,
           Blank,
           <<"| Attribute | Value |">>,
           <<"|------|-----|">>,
           <<"| Stance | _ |", zhStance(e.stance)>>,
           <<"| Source | _ |", e.source>>,
           <<"| Source type | _ |", zhSourceType(e.source_type)>>,
           <<"| Weight | _ |", toFixed(e.source_weight, 2)>> >>
        \o (IF Truthy(e.domain) THEN << <<"| Domain | _ |", zhDomain(e.domain)>> >> ELSE <<>>)
        \o (IF e.is_authoritative THEN << <<"| Authoritative | yes |">> >> ELSE <<>>)
        \o (IF ~IsNull(e.alignment_confidence)
            THEN << <<"| Alignment confidence | _ |",
                      toFixed(Get(e.alignment_confidence), 2)>> >>
            ELSE <<>>)
        \o <<Blank>>
        \o (IF Truthy(e.summary) /\ ~isSummary
            THEN << <<"**Summary**: _", zhText(e.summary)>>, Blank >> ELSE <<>>)
        \o (IF Truthy(e.alignment_rationale)
            THEN << <<"**Alignment rationale**: _", zhText(e.alignment_rationale)>>, Blank >>
            ELSE <<>>)
        \o (IF isSummary /\ Len(e.source_urls) > 0
            THEN << <<"**Source links** (_):", Len(e.source_urls)>>, Blank >>
                 \o FlatMap(LAMBDA u, i : << <<"_. [_](_)", i, u, u>> >>, e.source_urls)
                 \o <<Blank>>
            ELSE << <<"**Link**: [_](_)", e.url, e.url>>, Blank >>)

AlignedClaimReportSkipEmpty(cr) ==
    IF Len(cr.evidences) = 0 THEN <<>>
    ELSE << <<"### _: _", cr.claim.claim_id, cr.claim.claim_text>>, Blank,
            <<"**Final stance**: _", zhStance(cr.final_stance)>>, Blank >>
         \o FlatMap(AlignedEvidenceEntry, cr.evidences)

AlignedClaimReport(cr) ==
    << <<"### _: _", cr.claim.claim_id, cr.claim.claim_text>>, Blank,
       <<"**Final stance**: _", zhStance(cr.final_stance)>>, Blank >>
    \o (IF Len(cr.evidences) = 0
        THEN << <<"*No aligned evidence*">>, Blank >>
        ELSE FlatMap(AlignedEvidenceEntry, cr.evidences))

AlignedEvidenceChain(report) ==
    << <<"## Evidence chain">>, Blank >>
    \o FlatMap(LAMBDA cr, i : AlignedClaimReport(cr), report.claim_reports)

(***************************************************************************)
(* generateMarkdown: the evidence chain, raw fallback (lines 162-209)      *)
(* A Map is the sequence of its <<key, value>> entries in insertion order. *)
(***************************************************************************)
MapHas(m, key) == \E i \in 1..Len(m) : m[i][1] = key

MapGet(m, key) == m[CHOOSE i \in 1..Len(m) : m[i][1] = key][2]

MapSetReinsert(m, key, value) ==
    Append(SelectSeq(m, LAMBDA entry : entry[1] # key), <<key, value>>)

MapSet(m, key, value) ==
    IF MapHas(m, key)
    THEN [i \in 1..Len(m) |-> IF m[i][1] = key THEN <<key, value>> ELSE m[i]]
    ELSE Append(m, <<key, value>>)

EvidenceKey(e) == IF Truthy(e.claim_id) THEN e.claim_id ELSE "unknown"

RECURSIVE GroupByClaim(_, _)
GroupByClaim(byClaim, evidences) ==
    IF Len(evidences) = 0 THEN byClaim
    ELSE LET e == evidences[1]
             key == EvidenceKey(e)
             list == IF MapHas(byClaim, key) THEN MapGet(byClaim, key) ELSE <<>>
         IN  GroupByClaim(MapSet(byClaim, key, Append(list, e)), Tail(evidences))

RECURSIVE ClaimTextMap(_, _)
ClaimTextMap(m, claims) ==
    IF Len(claims) = 0 THEN m
    ELSE ClaimTextMap(MapSet(m, claims[1].claim_id, claims[1].claim_text), Tail(claims))

RawEvidenceEntry(e, idx) ==
    << <<"#### Evidence _: _", idx, zhText(e.title)>>,
       Blank,
       <<"| Attribute | Value |">>,
       <<"|------|-----|">>,
       <<"| Stance | _ |", zhStance(e.stance)>>,
       <<"| Source | _ |", e.source>>,
       <<"| Source type | _ |", zhSourceType(e.source_type)>>,
       <<"| Weight | _ |", toFixed(e.source_weight, 2)>> >>
    \o (IF Truthy(e.domain) THEN << <<"| Domain | _ |", zhDomain(e.domain)>> >> ELSE <<>>)
    \o <<Blank>>
    \o (IF Truthy(e.summary)
        THEN << <<"**Summary**: _", zhText(e.summary)>>, Blank >> ELSE <<>>)
    \o << <<"**Link**: [_](_)", e.url, e.url>>, Blank >>

RawGroupSkipUnresolved(entry, claimTextMap) ==
    IF MapHas(claimTextMap, entry[1])
    THEN << <<"### _: _", entry[1], MapGet(claimTextMap, entry[1])>>, Blank >>
         \o FlatMap(RawEvidenceEntry, entry[2])
    ELSE <<>>

RawGroup(entry, claimTextMap) ==
    LET claimId == entry[1]
        items == entry[2]
        claimText == IF MapHas(claimTextMap, claimId)
                     THEN MapGet(claimTextMap, claimId)
                     ELSE "(not associated with any claim)"
    IN  << <<"### _: _", claimId, claimText>>, Blank >>
        \o FlatMap(RawEvidenceEntry, items)

RawEvidenceChain(evidences, claims) ==
    LET byClaim == GroupByClaim(<<>>, evidences)
        claimTextMap == ClaimTextMap(<<>>, claims)
    IN  << <<"## Evidence chain">>, Blank,
           <<"*Note: raw retrieved evidence, not aligned*">>, Blank >>
        \o FlatMap(LAMBDA entry, i : RawGroup(entry, claimTextMap), byClaim)

HasClaimReports(d) ==
    ~IsNull(d.report) /\ Len(Get(d.report).claim_reports) > 0

EvidenceChainRawFirst(d) ==
    IF Len(d.evidences) > 0 THEN RawEvidenceChain(d.evidences, d.claims)
    ELSE IF HasClaimReports(d) THEN AlignedEvidenceChain(Get(d.report))
    ELSE <<>>

EvidenceChainAlwaysHeaded(d) ==
    IF HasClaimReports(d) THEN AlignedEvidenceChain(Get(d.report))
    ELSE RawEvidenceChain(d.evidences, d.claims)

EvidenceChainSection(d) ==
    IF HasClaimReports(d) THEN AlignedEvidenceChain(Get(d.report))
    ELSE IF Len(d.evidences) > 0 THEN RawEvidenceChain(d.evidences, d.claims)
    ELSE <<>>

(***************************************************************************)
(* generateMarkdown: report summary (lines 211-255)                        *)
(***************************************************************************)
ClaimConclusion(cr, i) ==
    << <<"#### _", cr.claim.claim_id>>, Blank,
       <<"**Claim**: _", cr.claim.claim_text>>, Blank,
       <<"**Final stance**: _", zhStance(cr.final_stance)>>, Blank >>
    \o (IF Len(cr.notes) > 0
        THEN << <<"**Notes**:">>, Blank >>
             \o FlatMap(LAMBDA n, j : << <<"- _", zhText(n)>> >>, cr.notes)
             \o <<Blank>>
        ELSE <<>>)

ReportSummarySection(d) ==
    IF IsNull(d.report) THEN <<>>
    ELSE LET report == Get(d.report)
             domains == FlatMap(LAMBDA x, i : <<zhDomain(x)>>, report.evidence_domains)
         IN  << <<"## Report summary">>, Blank,
                <<"| Item | Value |">>,
                <<"|------|-----|">>,
                <<"| Risk rating | _(_ risk)|", zhRiskLabel(report.risk_label),
                  zhRiskLevel(report.risk_level)>>,
                <<"| Risk score | _ |", report.risk_score>>,
                <<"| Scenario | _ |", zhScenario(report.detected_scenario)>>,
                <<"| Evidence domains | _ |",
                  IF Len(domains) > 0 THEN <<"join", domains>> ELSE <<"(none)">> >>,
                Blank,
                <<"**Summary**: _", zhText(report.summary)>>,
                Blank >>
             \o (IF Len(report.suspicious_points) > 0
                 THEN << <<"**Suspicious points**:">>, Blank >>
                      \o FlatMap(LAMBDA pt, i : << <<"- _", zhText(pt)>> >>,
                                 report.suspicious_points)
                      \o <<Blank>>
                 ELSE <<>>)
             \o (IF Len(report.claim_reports) > 0
                 THEN << <<"### Claim conclusions">>, Blank >>
                      \o FlatMap(ClaimConclusion, report.claim_reports)
                 ELSE <<>>)

(***************************************************************************)
(* generateMarkdown: simulation (lines 257-330)                            *)
(* A distribution is the sequence of its Object.entries.                   *)
(***************************************************************************)
\* A property read obj[key] on an object literal: the literal's own members
\* first, then the members every object inherits from Object.prototype,
\* rendered as a template string renders them; undefined when neither has key.
ObjectPrototypeText(key) ==
    CASE key = "constructor" -> "function Object() { [native code] }"
      [] key = "toString"    -> "function toString() { [native code] }"
      [] key = "__proto__"   -> "[object Object]"
      [] OTHER               -> Undefined

GetProperty(literal, key) ==
    IF MapHas(literal, key) THEN MapGet(literal, key) ELSE ObjectPrototypeText(key)

priorityLabels ==
    << <<"urgent", "label:urgent">>, <<"high", "label:high">>, <<"medium", "label:medium">> >>

categoryLabels ==
    << <<"official", "label:official">>, <<"media", "label:media">>,
       <<"platform", "label:platform">>, <<"user", "label:user">> >>

\* priorityLabels[action.priority] || action.priority
PriorityLabel(code) ==
    LET label == GetProperty(priorityLabels, code)
    IN  IF Truthy(label) THEN label ELSE code

\* categoryLabels[action.category] || action.category
CategoryLabel(code) ==
    LET label == GetProperty(categoryLabels, code)
    IN  IF Truthy(label) THEN label ELSE code

OrDash(x) == IF Truthy(x) THEN x ELSE "-"

DistributionTable(header, entries) ==
    IF Len(entries) > 0
    THEN << header, <<"|------|------|">> >>
         \o FlatMap(LAMBDA kv, i : << <<"| _ | _% |", kv[1], toFixed(kv[2] * 100, 1)>> >>,
                    entries)
         \o <<Blank>>
    ELSE <<>>

SuggestionBlock(sim) ==
    IF ~IsNull(sim.suggestion) /\ Truthy(Get(sim.suggestion).summary)
    THEN LET sg == Get(sim.suggestion)
         IN  << <<"**_**", zhText(sg.summary)>>, Blank >>
             \o (IF Len(sg.actions) > 0
                 THEN << <<"| Priority | Category | Action | Timeline | Responsible |">>,
                         <<"|--------|------|------|------|--------|">> >>
                      \o FlatMap(LAMBDA a, i :
                             << <<"| _ | _ | _ | _ | _ |", PriorityLabel(a.priority),
                                  CategoryLabel(a.category), zhText(a.action),
                                  OrDash(a.timeline), OrDash(a.responsible)>> >>,
                             sg.actions)
                 ELSE <<>>)
    ELSE <<>>

SimulationSection(d) ==
    IF IsNull(d.simulation) THEN <<>>
    ELSE LET sim == Get(d.simulation)
         IN  << <<"## Simulation">>, Blank,
                <<"### Emotion distribution">>, Blank >>
             \o DistributionTable(<<"| Emotion | Share |">>, sim.emotion_distribution)
             \o << <<"### Stance distribution">>, Blank >>
             \o DistributionTable(<<"| Stance | Share |">>, sim.stance_distribution)
             \o (IF Len(sim.narratives) > 0
                 THEN << <<"### Narratives">>, Blank >>
                      \o FlatMap(LAMBDA n, i :
                             << <<"_. **_** (_%)", i, zhText(n.title),
                                  toFixed(n.probability * 100, 0)>>,
                                <<"   - Stance: _", n.stance>>,
                                <<"   - Trigger keywords: _",
                                  IF Len(n.trigger_keywords) > 0
                                  THEN <<"join", n.trigger_keywords>> ELSE <<"(none)">> >>,
                                <<"   - Sample message: _", zhText(n.sample_message)>>,
                                Blank >>,
                             sim.narratives)
                 ELSE <<>>)
             \o (IF Len(sim.flashpoints) > 0
                 THEN << <<"### Flashpoints">>, Blank >>
                      \o FlatMap(LAMBDA f, i : << <<"- (warning) _", zhText(f)>> >>,
                                 sim.flashpoints)
                      \o <<Blank>>
                 ELSE <<>>)
             \o << <<"### Suggestions">>, Blank >>
             \o SuggestionBlock(sim)
             \o <<Blank>>

(***************************************************************************)
(* generateMarkdown: response content (lines 332-392)                      *)
(***************************************************************************)
OtherVariantsUnfiltered(allClarifications, primary) == allClarifications

\* allClarifications.filter((v) => v.id !== primary?.id)
OtherVariants(allClarifications, primary) ==
    IF IsNull(primary) THEN allClarifications
    ELSE SelectSeq(allClarifications, LAMBDA v : v.id # Get(primary).id)

\* lines 358-362: others is the array filter returns, others.sort(...) acts on it
OthersHeap(allClarifications, primary) ==
    ArraySort([allClarifications |-> allClarifications,
               others |-> OtherVariants(allClarifications, primary)], "others")

ResponseContentSection(d) ==
    IF IsNull(d.content) THEN <<>>
    ELSE LET content == Get(d.content)
             primary == resolvePrimaryClarification(d.content)
             allClarifications == content.clarifications
             others == OtherVariants(allClarifications, primary)
         IN  << <<"## Response content">>, Blank >>
             \o (IF ~IsNull(primary)
                 THEN << <<"### Clarification (primary: _)", Get(primary).style>>, Blank,
                         <<"#### Short">>, Blank,
                         <<"_", Get(primary).content.short>>, Blank,
                         <<"#### Medium">>, Blank,
                         <<"_", Get(primary).content.medium>>, Blank,
                         <<"#### Long">>, Blank,
                         <<"_", Get(primary).content.long>>, Blank >>
                 ELSE <<>>)
             \o (IF Len(others) > 0
                 THEN << <<"### Clarification (other versions)">>, Blank >>
                      \o FlatMap(LAMBDA v, i :
                             << <<"#### Version _ (_)", i, v.style>>, Blank,
                                <<"_", v.content.medium>>, Blank >>,
                             OthersHeap(allClarifications, primary).others)
                 ELSE <<>>)
             \o (IF Len(content.faq) > 0
                 THEN << <<"### FAQ">>, Blank >>
                      \o FlatMap(LAMBDA item, i :
                             << <<"- **Q_**: _", i, item.question>>,
                                <<"  - _", item.answer>> >>,
                             content.faq)
                      \o <<Blank>>
                 ELSE <<>>)
             \o (IF Len(content.platform_scripts) > 0
                 THEN << <<"### Platform scripts">>, Blank >>
                      \o FlatMap(LAMBDA sc, i :
                             << <<"#### _", sc.platform>>, Blank,
                                <<"_", sc.content>>, Blank >>,
                             content.platform_scripts)
                 ELSE <<>>)

FooterSection(d) ==
    << <<"---">>, Blank,
       <<"*Generated automatically by TruthCast, for decision support only.*">> >>

(***************************************************************************)
(* generateMarkdown(data): the lines of lines.join('\n')                   *)
(***************************************************************************)
generateMarkdownSimulationFirst(d) ==
    TitleSection(d)
    \o TimestampSection(d)
    \o InputSection(d)
    \o RiskSnapshotSection(d)
    \o ClaimTableSection(d)
    \o EvidenceChainSection(d)
    \o SimulationSection(d)
    \o ReportSummarySection(d)
    \o ResponseContentSection(d)
    \o FooterSection(d)

generateMarkdown(d) ==
    TitleSection(d)
    \o TimestampSection(d)
    \o InputSection(d)
    \o RiskSnapshotSection(d)
    \o ClaimTableSection(d)
    \o EvidenceChainSection(d)
    \o ReportSummarySection(d)
    \o SimulationSection(d)
    \o ResponseContentSection(d)
    \o FooterSection(d)

\* the snapshot as generateMarkdown leaves it: the calls that write to an
\* array are the two sorts (lines 31 and 362); everything else reads
snapshotAfterGenerateMarkdown(d) ==
    IF IsNull(d.content) THEN d
    ELSE LET c == Get(contentAfterResolve(d.content))
             primary == resolvePrimaryClarification(d.content)
         IN  [d EXCEPT !.content =
                 Some([c EXCEPT !.clarifications =
                          OthersHeap(c.clarifications, primary).allClarifications])]

(***************************************************************************)
(* Inputs: clarification variants and content drafts                       *)
(***************************************************************************)
VariantIds == {"v1", "v2", "v3", "v4"}
StaleId == "v9"
Timestamps == {<<>>, <<1>>, <<1, 2>>, <<2>>}

StyleOf(id) ==
    CASE id = "v1" -> "formal"
      [] id = "v2" -> "friendly"
      [] OTHER     -> "neutral"

ShortOf(id) ==
    CASE id = "v1" -> "v1.short" [] id = "v2" -> "v2.short"
      [] id = "v3" -> "v3.short" [] OTHER -> "v4.short"
MediumOf(id) ==
    CASE id = "v1" -> "v1.medium" [] id = "v2" -> "v2.medium"
      [] id = "v3" -> "v3.medium" [] OTHER -> "v4.medium"
LongOf(id) ==
    CASE id = "v1" -> "v1.long" [] id = "v2" -> "v2.long"
      [] id = "v3" -> "v3.long" [] OTHER -> "v4.long"

Variant(id, ts) ==
    [id |-> id, style |-> StyleOf(id), generated_at |-> ts,
     content |-> [short |-> ShortOf(id), medium |-> MediumOf(id), long |-> LongOf(id)]]

\* every list of at most n variants with pairwise different ids
RECURSIVE VariantLists(_)
VariantLists(n) ==
    IF n = 0 THEN {<<>>}
    ELSE LET shorter == VariantLists(n - 1)
         IN  shorter \cup
             {Append(l, Variant(id, ts)) :
                 l \in {s \in shorter : Len(s) = n - 1},
                 id \in VariantIds, ts \in Timestamps}

UniqueIds(list) == \A i, j \in 1..Len(list) : list[i].id = list[j].id => i = j

Contents(lists, pids) ==
    {[clarifications |-> l, primary_clarification_id |-> p, faq |-> <<>>,
      platform_scripts |-> <<>>] : l \in lists, p \in pids}

EmptySnapshot ==
    [inputText |-> <<"input">>, detectData |-> Null, claims |-> <<>>,
     evidences |-> <<>>, report |-> Null, simulation |-> Null,
     content |-> Null, exportedAt |-> "2024/1/1 10:00:00"]

ResolverSnapshots ==
    {EmptySnapshot} \cup
    {[EmptySnapshot EXCEPT !.content = Some(c)] :
        c \in Contents({l \in VariantLists(MaxVariants) : UniqueIds(l)},
                       {Undefined, "", "v1", "v2", StaleId})}

(***************************************************************************)
(* Inputs: claims, evidences, reports, simulations                         *)
(***************************************************************************)
MaxEvidences == 3

Claim(id) ==
    [claim_id |-> id, claim_text |-> IF id = "C1" THEN "claim one" ELSE "claim two"]

ClaimLists == {<<>>, <<Claim("C1")>>, <<Claim("C2"), Claim("C1")>>}

\* a raw evidence: one concrete source with a single url
RawEvidence(claimId, title, summary, domain) ==
    [claim_id |-> claimId, title |-> title, source |-> "source", source_type |-> "web",
     url |-> IF title = "t1" THEN "http://t1" ELSE "http://t2",
     stance |-> "support", source_weight |-> 8567, domain |-> domain,
     summary |-> summary, is_authoritative |-> FALSE, alignment_confidence |-> Null,
     alignment_rationale |-> Undefined, source_urls |-> <<>>]

\* an aggregated evidence: source_type web_summary, source_urls instead of url
AggregatedEvidence(summary, urls) ==
    [claim_id |-> Undefined, title |-> "aggregate", source |-> "source",
     source_type |-> "web_summary", url |-> Undefined,
     stance |-> "refute", source_weight |-> 5000, domain |-> "health",
     summary |-> summary, is_authoritative |-> TRUE, alignment_confidence |-> Some(9149),
     alignment_rationale |-> "rationale", source_urls |-> urls]

RawEvidencePool ==
    {RawEvidence(c, "t1", Undefined, Undefined) : c \in {Undefined, "", "C1", "C2"}}
    \cup {RawEvidence(c, "t2", "summary two", "health") : c \in {Undefined, "", "C1", "C2"}}

RECURSIVE SeqsUpTo(_, _)
SeqsUpTo(S, n) ==
    IF n = 0 THEN {<<>>}
    ELSE LET shorter == SeqsUpTo(S, n - 1)
         IN  shorter \cup {Append(l, x) : l \in {s \in shorter : Len(s) = n - 1}, x \in S}

RawEvidenceLists == SeqsUpTo(RawEvidencePool, MaxEvidences)

ClaimReport(id, evidences, notes) ==
    [claim |-> Claim(id), final_stance |-> "refute", evidences |-> evidences,
     notes |-> notes]

Report(claimReports, domains, points) ==
    [risk_label |-> "suspicious", risk_level |-> "high", risk_score |-> 72,
     detected_scenario |-> "health", evidence_domains |-> domains,
     summary |-> "report summary", suspicious_points |-> points,
     claim_reports |-> claimReports]

AlignedRaw == [RawEvidence("C1", "t1", "summary one", Undefined) EXCEPT
                  !.alignment_confidence = Some(3333)]

Reports ==
    {Null,
     Some(Report(<<>>, <<>>, <<>>)),
     Some(Report(<<ClaimReport("C1", <<>>, <<>>)>>, <<"health">>, <<"point">>)),
     Some(Report(<<ClaimReport("C2", <<AlignedRaw,
                                        AggregatedEvidence("agg summary", <<"http://a", "http://b">>)>>,
                                <<"note">>),
                   ClaimReport("C1", <<>>, <<>>)>>,
                 <<"health", "science">>, <<>>))}

Action(priority, category) ==
    [priority |-> priority, category |-> category, action |-> "publish statement",
     timeline |-> IF priority = "urgent" THEN "24h" ELSE Undefined,
     responsible |-> Undefined]

Narrative ==
    [title |-> "narrative", probability |-> 4200, stance |-> "doubt",
     trigger_keywords |-> <<"k1", "k2">>, sample_message |-> "message"]

Simulations ==
    {Null,
     Some([emotion_distribution |-> <<>>, stance_distribution |-> <<>>,
           narratives |-> <<>>, flashpoints |-> <<>>, suggestion |-> Null]),
     Some([emotion_distribution |-> << <<"anger", 1234>> >>,
           stance_distribution |-> << <<"support", 5000>>, <<"oppose", 5000>> >>,
           narratives |-> <<Narrative>>, flashpoints |-> <<"flashpoint">>,
           suggestion |-> Some([summary |-> "suggestion",
                                actions |-> <<Action("urgent", "official"),
                                              Action("critical", "other")>>])])}

DetectResults ==
    {Null,
     Some([label |-> "suspicious", score |-> 72, confidence |-> 80,
           reasons |-> <<"reason one", "reason two">>])}

MarkdownContents ==
    {Null,
     Some([clarifications |-> <<>>, primary_clarification_id |-> Undefined,
           faq |-> <<>>, platform_scripts |-> <<>>]),
     Some([clarifications |-> <<Variant("v1", <<1>>), Variant("v2", <<2>>),
                                Variant("v3", <<1, 2>>)>>,
           primary_clarification_id |-> Undefined,
           faq |-> <<[question |-> "q", answer |-> "a"]>>,
           platform_scripts |-> <<[platform |-> "weibo", content |-> "script"]>>]),
     Some([clarifications |-> <<Variant("v1", <<1>>), Variant("v2", <<2>>)>>,
           primary_clarification_id |-> "v1", faq |-> <<>>, platform_scripts |-> <<>>])}

\* snapshots that vary the suggested actions: the mapped codes, codes outside
\* the maps, and codes that name a member of Object.prototype
ActionSnapshots ==
    LET PriorityCodes == {"urgent", "high", "medium", "critical", "", "constructor"}
        CategoryCodes == {"official", "media", "platform", "user", "other", "toString"}
        ActionLists ==
            {<<Action(p, c)>> : p \in PriorityCodes, c \in CategoryCodes}
            \cup {<<Action("critical", "other"), Action(p, "user"), Action("high", c)>> :
                     p \in PriorityCodes, c \in CategoryCodes}
    IN  {[EmptySnapshot EXCEPT !.simulation =
              Some([emotion_distribution |-> <<>>, stance_distribution |-> <<>>,
                    narratives |-> <<>>, flashpoints |-> <<>>,
                    suggestion |-> Some([summary |-> "suggestion", actions |-> l])])] :
            l \in ActionLists}

\* snapshots that vary the numbers the document formats: fractions in
\* ten-thousandths; the ties among them (0.125, 0.5) are exact in binary
\* floating point, so the number the code rounds is the number written
NumberSnapshots ==
    LET Fractions == {0, 1234, 1250, 4200, 5000, 8567, 9999, 10000}
    IN  {[EmptySnapshot EXCEPT
            !.report = Some(Report(
                <<ClaimReport("C1",
                    <<[AlignedRaw EXCEPT !.source_weight = x,
                                         !.alignment_confidence = Some(y)],
                      [AggregatedEvidence("agg summary", <<"http://a">>) EXCEPT
                          !.source_weight = y, !.alignment_confidence = Null]>>,
                    <<>>)>>, <<>>, <<>>)),
            !.simulation =
                Some([emotion_distribution |-> << <<"anger", x>>, <<"fear", y>> >>,
                      stance_distribution |-> << <<"support", y>> >>,
                      narratives |-> <<[Narrative EXCEPT !.probability = x],
                                       [Narrative EXCEPT !.probability = y]>>,
                      flashpoints |-> <<>>, suggestion |-> Null])] :
            x \in Fractions, y \in Fractions}

MaxClaimReports == 3

\* snapshots that vary the claim reports of the aligned strategy (with and
\* without evidences, in every order) and the shape of their evidences:
\* aggregated with and without a summary and source_urls, raw with and
\* without a summary
AlignedSnapshots ==
    LET EvidenceShapes ==
            {AggregatedEvidence(sm, urls) :
                sm \in {"agg summary", Undefined},
                urls \in {<<>>, <<"http://a", "http://b">>}}
            \cup {AlignedRaw, [AlignedRaw EXCEPT !.summary = Undefined, !.title = "t2"]}
        ClaimReportPool ==
            {ClaimReport("C1", <<>>, <<>>), ClaimReport("C2", <<>>, <<>>),
             [ClaimReport("C1", <<AlignedRaw>>, <<>>) EXCEPT !.final_stance = "support"],
             ClaimReport("C2", <<AlignedRaw, AggregatedEvidence("agg summary", <<"http://a">>),
                                AlignedRaw>>, <<"note">>)}
        ClaimReportLists ==
            SeqsUpTo(ClaimReportPool, MaxClaimReports)
            \cup {<<ClaimReport("C1", <<e>>, <<>>)>> : e \in EvidenceShapes}
            \cup {<<ClaimReport("C1", <<>>, <<>>), ClaimReport("C2", <<e1, e2>>, <<>>)>> :
                     e1 \in EvidenceShapes, e2 \in EvidenceShapes}
    IN  {[EmptySnapshot EXCEPT
            !.report = Some(Report(crs, <<>>, <<>>)),
            !.evidences = <<RawEvidence("C1", "t1", Undefined, Undefined)>>] :
            crs \in ClaimReportLists}

\* snapshots that vary the evidence chain's inputs
EvidenceSnapshots ==
    {[EmptySnapshot EXCEPT !.claims = c, !.evidences = e, !.report = r] :
        c \in ClaimLists, e \in RawEvidenceLists, r \in Reports}

\* snapshots that vary which sections are present
SectionSnapshots ==
    {[inputText |-> t, detectData |-> det, claims |-> c, evidences |-> e,
      report |-> r, simulation |-> sim, content |-> k,
      exportedAt |-> "2024/1/1 10:00:00"] :
        t \in {<<"input">>, <<"line one", "line two">>},
        det \in DetectResults,
        c \in {<<>>, <<Claim("C1")>>},
        e \in {<<>>, <<RawEvidence("C1", "t1", Undefined, Undefined),
                       RawEvidence(Undefined, "t2", "summary two", "health")>>},
        r \in Reports, sim \in Simulations, k \in MarkdownContents}

MarkdownSnapshots == EvidenceSnapshots \cup SectionSnapshots \cup ActionSnapshots
    \cup NumberSnapshots \cup AlignedSnapshots

(***************************************************************************)
(* JavaScript values as JSON.stringify sees them: a tagged tree.           *)
(* An object is the sequence of its own enumerable <<key, value>> members  *)
(* in property order; an optional property that is not there is not a      *)
(* member.                                                                 *)
(***************************************************************************)
JsNull == <<"null">>
JsUndefined == <<"undefined">>
JsStr(x) == <<"str", x>>
JsNum(n) == <<"num", n>>
JsBool(b) == <<"bool", b>>
JsArr(items) == <<"arr", items>>
JsObj(members) == <<"obj", members>>

Member(key, value) == << <<key, value>> >>
OptStr(key, x) == IF x = Undefined THEN <<>> ELSE Member(key, JsStr(x))
JsStrings(list) == JsArr(FlatMap(LAMBDA x, i : <<JsStr(x)>>, list))

ClaimJs(c) ==
    JsObj(Member("claim_id", JsStr(c.claim_id)) \o Member("claim_text", JsStr(c.claim_text)))

EvidenceJs(e) ==
    JsObj(OptStr("claim_id", e.claim_id)
          \o Member("title", JsStr(e.title))
          \o Member("source", JsStr(e.source))
          \o Member("source_type", JsStr(e.source_type))
          \o OptStr("url", e.url)
          \o Member("stance", JsStr(e.stance))
          \o Member("source_weight", JsNum(e.source_weight))
          \o OptStr("domain", e.domain)
          \o OptStr("summary", e.summary)
          \o Member("is_authoritative", JsBool(e.is_authoritative))
          \o (IF IsNull(e.alignment_confidence) THEN <<>>
              ELSE Member("alignment_confidence", JsNum(Get(e.alignment_confidence))))
          \o OptStr("alignment_rationale", e.alignment_rationale)
          \o (IF Len(e.source_urls) = 0 THEN <<>>
              ELSE Member("source_urls", JsStrings(e.source_urls))))

ClaimReportJs(cr) ==
    JsObj(Member("claim", ClaimJs(cr.claim))
          \o Member("final_stance", JsStr(cr.final_stance))
          \o Member("evidences", JsArr(FlatMap(LAMBDA e, i : <<EvidenceJs(e)>>, cr.evidences)))
          \o Member("notes", JsStrings(cr.notes)))

ReportJs(r) ==
    JsObj(Member("risk_label", JsStr(r.risk_label))
          \o Member("risk_level", JsStr(r.risk_level))
          \o Member("risk_score", JsNum(r.risk_score))
          \o Member("detected_scenario", JsStr(r.detected_scenario))
          \o Member("evidence_domains", JsStrings(r.evidence_domains))
          \o Member("summary", JsStr(r.summary))
          \o Member("suspicious_points", JsStrings(r.suspicious_points))
          \o Member("claim_reports",
                    JsArr(FlatMap(LAMBDA cr, i : <<ClaimReportJs(cr)>>, r.claim_reports))))

DetectJs(det) ==
    JsObj(Member("label", JsStr(det.label))
          \o Member("score", JsNum(det.score))
          \o Member("confidence", JsNum(det.confidence))
          \o Member("reasons", JsStrings(det.reasons)))

DistributionJs(entries) ==
    JsObj(FlatMap(LAMBDA kv, i : Member(kv[1], JsNum(kv[2])), entries))

NarrativeJs(n) ==
    JsObj(Member("title", JsStr(n.title))
          \o Member("probability", JsNum(n.probability))
          \o Member("stance", JsStr(n.stance))
          \o Member("trigger_keywords", JsStrings(n.trigger_keywords))
          \o Member("sample_message", JsStr(n.sample_message)))

ActionJs(a) ==
    JsObj(Member("priority", JsStr(a.priority))
          \o Member("category", JsStr(a.category))
          \o Member("action", JsStr(a.action))
          \o OptStr("timeline", a.timeline)
          \o OptStr("responsible", a.responsible))

SuggestionJs(sg) ==
    JsObj(Member("summary", JsStr(sg.summary))
          \o Member("actions", JsArr(FlatMap(LAMBDA a, i : <<ActionJs(a)>>, sg.actions))))

SimulationJs(sim) ==
    JsObj(Member("emotion_distribution", DistributionJs(sim.emotion_distribution))
          \o Member("stance_distribution", DistributionJs(sim.stance_distribution))
          \o Member("narratives",
                    JsArr(FlatMap(LAMBDA n, i : <<NarrativeJs(n)>>, sim.narratives)))
          \o Member("flashpoints", JsStrings(sim.flashpoints))
          \o (IF IsNull(sim.suggestion) THEN <<>>
              ELSE Member("suggestion", SuggestionJs(Get(sim.suggestion)))))

VariantJs(v) ==
    JsObj(Member("id", JsStr(v.id))
          \o Member("style", JsStr(v.style))
          \o Member("generated_at", JsStr(v.generated_at))
          \o Member("content",
                    JsObj(Member("short", JsStr(v.content.short))
                          \o Member("medium", JsStr(v.content.medium))
                          \o Member("long", JsStr(v.content.long)))))

ContentJs(c) ==
    JsObj(Member("clarifications",
                 JsArr(FlatMap(LAMBDA v, i : <<VariantJs(v)>>, c.clarifications)))
          \o OptStr("primary_clarification_id", c.primary_clarification_id)
          \o Member("faq",
                    JsArr(FlatMap(LAMBDA f, i :
                              <<JsObj(Member("question", JsStr(f.question))
                                      \o Member("answer", JsStr(f.answer)))>>,
                              c.faq)))
          \o Member("platform_scripts",
                    JsArr(FlatMap(LAMBDA sc, i :
                              <<JsObj(Member("platform", JsStr(sc.platform))
                                      \o Member("content", JsStr(sc.content)))>>,
                              c.platform_scripts))))

\* the ExportData object as SimulationPage builds it (page.tsx lines 30-39)
ExportDataJs(d) ==
    JsObj(Member("inputText", JsStr(d.inputText))
          \o Member("detectData",
                    IF IsNull(d.detectData) THEN JsNull ELSE DetectJs(Get(d.detectData)))
          \o Member("claims", JsArr(FlatMap(LAMBDA c, i : <<ClaimJs(c)>>, d.claims)))
          \o Member("evidences", JsArr(FlatMap(LAMBDA e, i : <<EvidenceJs(e)>>, d.evidences)))
          \o Member("report", IF IsNull(d.report) THEN JsNull ELSE ReportJs(Get(d.report)))
          \o Member("simulation",
                    IF IsNull(d.simulation) THEN JsNull ELSE SimulationJs(Get(d.simulation)))
          \o Member("content", IF IsNull(d.content) THEN JsNull ELSE ContentJs(Get(d.content)))
          \o Member("exportedAt", JsStr(d.exportedAt)))

(***************************************************************************)
(* JSON.stringify(value, null, gap): the tokens of the text.  <<"nl", n>>  *)
(* is a line break followed by n spaces.  A member whose value is          *)
(* undefined is left out; an undefined array element is written null.      *)
(***************************************************************************)
RECURSIVE SerializeJSONProperty(_, _, _)
SerializeJSONProperty(v, indent, gap) ==
    CASE v[1] = "null" -> << <<"null">> >>
      [] v[1] = "str"  -> << <<"str", v[2]>> >>
      [] v[1] = "num"  -> << <<"num", v[2]>> >>
      [] v[1] = "bool" -> << <<IF v[2] THEN "true" ELSE "false">> >>
      [] v[1] = "arr"  ->
            IF Len(v[2]) = 0 THEN << <<"[">>, <<"]">> >>
            ELSE << <<"[">> >>
                 \o FlatMap(LAMBDA x, i :
                        (IF i > 1 THEN << <<",">> >> ELSE <<>>)
                        \o << <<"nl", indent + gap>> >>
                        \o (IF x[1] = "undefined" THEN << <<"null">> >>
                            ELSE SerializeJSONProperty(x, indent + gap, gap)),
                        v[2])
                 \o << <<"nl", indent>>, <<"]">> >>
      [] v[1] = "obj"  ->
            LET partial == SelectSeq(v[2], LAMBDA m : m[2][1] # "undefined")
            IN  IF Len(partial) = 0 THEN << <<"{">>, <<"}">> >>
                ELSE << <<"{">> >>
                     \o FlatMap(LAMBDA m, i :
                            (IF i > 1 THEN << <<",">> >> ELSE <<>>)
                            \o << <<"nl", indent + gap>>, <<"str", m[1]>>, <<":">> >>
                            \o SerializeJSONProperty(m[2], indent + gap, gap),
                            partial)
                     \o << <<"nl", indent>>, <<"}">> >>

JSONstringify(v, gap) == SerializeJSONProperty(v, 0, gap)

(***************************************************************************)
(* JSON.parse: a recursive descent over the tokens; <<value, next>>.       *)
(***************************************************************************)
RECURSIVE SkipWhitespace(_, _)
SkipWhitespace(tokens, pos) ==
    IF pos <= Len(tokens) /\ tokens[pos][1] = "nl"
    THEN SkipWhitespace(tokens, pos + 1) ELSE pos

RECURSIVE ParseValue(_, _)
RECURSIVE ParseItems(_, _, _)
RECURSIVE ParseMembers(_, _, _)

ParseValue(tokens, pos) ==
    LET q == SkipWhitespace(tokens, pos)
        t == tokens[q]
    IN  CASE t[1] = "null"  -> <<JsNull, q + 1>>
          [] t[1] = "true"  -> <<JsBool(TRUE), q + 1>>
          [] t[1] = "false" -> <<JsBool(FALSE), q + 1>>
          [] t[1] = "str"   -> <<JsStr(t[2]), q + 1>>
          [] t[1] = "num"   -> <<JsNum(t[2]), q + 1>>
          [] t[1] = "["     -> ParseItems(tokens, q + 1, <<>>)
          [] t[1] = "{"     -> ParseMembers(tokens, q + 1, <<>>)

ParseItems(tokens, pos, items) ==
    LET q == SkipWhitespace(tokens, pos)
    IN  IF tokens[q][1] = "]" THEN <<JsArr(items), q + 1>>
        ELSE IF tokens[q][1] = "," THEN ParseItems(tokens, q + 1, items)
        ELSE LET r == ParseValue(tokens, q)
             IN  ParseItems(tokens, r[2], Append(items, r[1]))

ParseMembers(tokens, pos, members) ==
    LET q == SkipWhitespace(tokens, pos)
    IN  IF tokens[q][1] = "}" THEN <<JsObj(members), q + 1>>
        ELSE IF tokens[q][1] = "," THEN ParseMembers(tokens, q + 1, members)
        ELSE LET r == ParseValue(tokens, q + 2)
             IN  ParseMembers(tokens, r[2], Append(members, <<tokens[q][2], r[1]>>))

JSONparse(tokens) == ParseValue(tokens, 1)[1]

(***************************************************************************)
(* downloadJson: const json = JSON.stringify(data, null, 2)                *)
(***************************************************************************)
RECURSIVE WithoutNullMembers(_)
WithoutNullMembers(v) ==
    CASE v[1] = "obj" ->
            JsObj(FlatMap(LAMBDA m, i :
                      IF m[2][1] = "null" THEN <<>>
                      ELSE Member(m[1], WithoutNullMembers(m[2])),
                      v[2]))
      [] v[1] = "arr" -> JsArr(FlatMap(LAMBDA x, i : <<WithoutNullMembers(x)>>, v[2]))
      [] OTHER -> v

serializeDroppingNulls(d) == JSONstringify(WithoutNullMembers(ExportDataJs(d)), 2)

serializeExportData(d) == JSONstringify(ExportDataJs(d), 2)

(***************************************************************************)
(* ErrorBoundary (error-boundary.tsx)                                      *)
(***************************************************************************)
\* this.setState(partial): the members of partial replace those of the state
SetState(state, partial) ==
    [k \in DOMAIN state |-> IF k \in DOMAIN partial THEN partial[k] ELSE state[k]]

\* constructor: this.state = { hasError: false, error: null }
initialState == [hasError |-> FALSE, error |-> Null]

\* static getDerivedStateFromError(error): { hasError: true, error }
getDerivedStateFromError(e) == [hasError |-> TRUE, error |-> Some(e)]

handleRetryFlagOnly == [hasError |-> FALSE]

\* handleRetry's this.setState({ hasError: false, error: null })
handleRetry == [hasError |-> FALSE, error |-> Null]

\* render(): props.fallback when it is given, else the card with the title,
\* the error's message and the retry button; the children without an error
render(props, state) ==
    IF state.hasError
    THEN IF Truthy(props.fallback) THEN <<"fallback", props.fallback>>
         ELSE <<"card",
                IF props.title # Undefined THEN props.title ELSE "module failed to load",
                state.error, "retry button">>
    ELSE <<"children">>

\* <ErrorBoundary title=...> around SimulationView (simulation/page.tsx)
SimulationBoundaryProps == [fallback |-> Undefined, title |-> "simulation failed to load"]

InitBoundary(props) ==
    /\ boundaryProps = props
    /\ hasError = initialState.hasError
    /\ error = initialState.error
    /\ rendered = render(props, initialState)
    /\ logged = <<>>
    /\ retries = 0

\* ExportButton: const [open, setOpen] = useState(false);
\*               const [exporting, setExporting] = useState(null)
InitButton ==
    /\ open = FALSE
    /\ exporting = Null
    /\ handlers = <<>>
    /\ outcomes = <<>>

(***************************************************************************)
(* Actions                                                                 *)
(***************************************************************************)
InitExport ==
    /\ op = "none"
    /\ resolved = Null
    /\ doc = <<>>
    /\ jsonText = <<>>
    /\ parsed = Null
    /\ pc = "idle"
    /\ blob = Null
    /\ url = 0
    /\ liveUrls = {}
    /\ anchors = 0
    /\ clicks = <<>>
    /\ created = 0
    /\ InitBoundary(SimulationBoundaryProps)
    /\ InitButton

ResolvePrimary ==
    /\ op = "none"
    /\ resolved' = resolvePrimaryClarification(data.content)
    /\ data' = [data EXCEPT !.content = contentAfterResolve(data.content)]
    /\ op' = "resolvePrimaryClarification"
    /\ UNCHANGED <<uiVars, doc, jsonVars, downloadVars>>

InitResolver == data \in ResolverSnapshots /\ InitExport

NextResolver == ResolvePrimary

SpecResolver == InitResolver /\ [][NextResolver]_vars

\* downloadMarkdown's const md = generateMarkdown(data)
GenerateMarkdown ==
    /\ op = "none"
    /\ doc' = generateMarkdown(data)
    /\ data' = snapshotAfterGenerateMarkdown(data)
    /\ op' = "generateMarkdown"
    /\ UNCHANGED <<uiVars, resolved, jsonVars, downloadVars>>

InitMarkdown == data \in MarkdownSnapshots /\ InitExport

NextMarkdown == GenerateMarkdown

SpecMarkdown == InitMarkdown /\ [][NextMarkdown]_vars

\* downloadJson's const json = JSON.stringify(data, null, 2)
StringifyJson ==
    /\ op = "none"
    /\ jsonText' = serializeExportData(data)
    /\ op' = "JSON.stringify"
    /\ UNCHANGED <<uiVars, data, resolved, doc, parsed, downloadVars>>

\* a reader of the exported file parses its text
ParseJson ==
    /\ op = "JSON.stringify"
    /\ parsed' = Some(JSONparse(jsonText))
    /\ op' = "JSON.parse"
    /\ UNCHANGED <<uiVars, data, resolved, doc, jsonText, downloadVars>>

JsonSnapshots == SectionSnapshots

InitJson == data \in JsonSnapshots /\ InitExport

NextJson == StringifyJson \/ ParseJson

SpecJson == InitJson /\ [][NextJson]_vars

\* the three exports over snapshots that vary the content draft
InitContent ==
    /\ data \in ResolverSnapshots
                 \cup {d \in SectionSnapshots : Len(d.inputText) = 1 /\ IsNull(d.detectData)}
    /\ InitExport

NextContent == ResolvePrimary \/ GenerateMarkdown \/ StringifyJson

SpecContent == InitContent /\ [][NextContent]_vars

(***************************************************************************)
(* downloadJson, downloadMarkdown and downloadBlob, one statement at a     *)
(* time.  A DOM call either returns or throws; an exception leaves         *)
(* downloadBlob at once (the function has no try / finally).               *)
(***************************************************************************)
CanStartDownload == pc \in {"idle", "done", "thrown"} /\ created < MaxDownloads

\* lines 36-38: stringify, new Blob, call downloadBlob
DownloadJsonCall ==
    /\ CanStartDownload
    /\ jsonText' = serializeExportData(data)
    /\ blob' = Some([type |-> "application/json;charset=utf-8", text |-> "json"])
    /\ op' = "downloadJson"
    /\ pc' = "createObjectURL"
    /\ url' = 0
    /\ UNCHANGED <<data, resolved, doc, parsed, liveUrls, anchors, clicks, created>>

DownloadJson == DownloadJsonCall /\ UNCHANGED uiVars

\* lines 42-44: generateMarkdown, new Blob, call downloadBlob
DownloadMarkdownCall ==
    /\ CanStartDownload
    /\ doc' = generateMarkdown(data)
    /\ data' = snapshotAfterGenerateMarkdown(data)
    /\ blob' = Some([type |-> "text/markdown;charset=utf-8", text |-> "md"])
    /\ op' = "downloadMarkdown"
    /\ pc' = "createObjectURL"
    /\ url' = 0
    /\ UNCHANGED <<resolved, jsonVars, liveUrls, anchors, clicks, created>>

DownloadMarkdown == DownloadMarkdownCall /\ UNCHANGED uiVars

\* line 48: const url = URL.createObjectURL(blob)
CreateObjectURL ==
    /\ pc = "createObjectURL"
    /\ url' = created + 1
    /\ created' = created + 1
    /\ liveUrls' = liveUrls \cup {created + 1}
    /\ pc' = "createElement"
    /\ UNCHANGED <<uiVars, data, exportVars, jsonVars, blob, anchors, clicks>>

\* lines 49-51: const a = document.createElement('a'); a.href = url; a.download = filename
CreateElement ==
    /\ pc = "createElement"
    /\ \E ok \in BOOLEAN : pc' = IF ok THEN "appendChild" ELSE "thrown"
    /\ UNCHANGED <<uiVars, data, exportVars, jsonVars, blob, url, liveUrls, anchors, clicks, created>>

\* line 52: document.body.appendChild(a)
AppendChild ==
    /\ pc = "appendChild"
    /\ \E ok \in BOOLEAN :
          IF ok THEN anchors' = anchors + 1 /\ pc' = "click"
                ELSE anchors' = anchors /\ pc' = "thrown"
    /\ UNCHANGED <<uiVars, data, exportVars, jsonVars, blob, url, liveUrls, clicks, created>>

\* line 53: a.click()
Click ==
    /\ pc = "click"
    /\ \E ok \in BOOLEAN :
          IF ok THEN clicks' = Append(clicks, url) /\ pc' = "removeChild"
                ELSE clicks' = clicks /\ pc' = "thrown"
    /\ UNCHANGED <<uiVars, data, exportVars, jsonVars, blob, url, liveUrls, anchors, created>>

\* line 54: document.body.removeChild(a)
RemoveChild ==
    /\ pc = "removeChild"
    /\ \E ok \in BOOLEAN :
          IF ok THEN anchors' = anchors - 1 /\ pc' = "revokeObjectURL"
                ELSE anchors' = anchors /\ pc' = "thrown"
    /\ UNCHANGED <<uiVars, data, exportVars, jsonVars, blob, url, liveUrls, clicks, created>>

\* line 55: URL.revokeObjectURL(url)
RevokeObjectURL ==
    /\ pc = "revokeObjectURL"
    /\ liveUrls' = liveUrls \ {url}
    /\ pc' = "done"
    /\ UNCHANGED <<uiVars, data, exportVars, jsonVars, blob, url, anchors, clicks, created>>

downloadBlob ==
    \/ CreateObjectURL
    \/ CreateElement
    \/ AppendChild
    \/ Click
    \/ RemoveChild
    \/ RevokeObjectURL

DownloadSnapshots ==
    {d \in SectionSnapshots :
        /\ Len(d.inputText) = 1
        /\ IsNull(d.simulation)
        /\ IsNull(d.content)
        /\ Len(d.claims) = 0}

InitDownload == data \in DownloadSnapshots /\ InitExport

NextDownload == DownloadJson \/ DownloadMarkdown \/ downloadBlob

SpecDownload == InitDownload /\ [][NextDownload]_vars

(***************************************************************************)
(* ErrorBoundary: a child throws while rendering, the user clicks retry    *)
(***************************************************************************)
\* React calls getDerivedStateFromError and componentDidCatch with the error a
\* child threw while the boundary was rendering its children, then re-renders
ChildThrows ==
    /\ rendered = <<"children">>
    /\ Len(logged) < MaxErrors
    /\ \E e \in {"e1", "e2", "e3"} :
          LET state == getDerivedStateFromError(e)
          IN  /\ hasError' = state.hasError
              /\ error' = state.error
              /\ logged' = Append(logged, e)
              /\ rendered' = render(boundaryProps, state)
    /\ UNCHANGED <<data, exportVars, jsonVars, downloadVars, buttonVars,
                   boundaryProps, retries>>

\* onClick={this.handleRetry} of the button on the card
HandleRetry ==
    /\ rendered[1] = "card"
    /\ LET state == SetState([hasError |-> hasError, error |-> error], handleRetry)
       IN  /\ hasError' = state.hasError
           /\ error' = state.error
           /\ rendered' = render(boundaryProps, state)
    /\ retries' = retries + 1
    /\ UNCHANGED <<data, exportVars, jsonVars, downloadVars, buttonVars,
                   boundaryProps, logged>>

InitBoundarySpec ==
    /\ data = EmptySnapshot
    /\ op = "none" /\ resolved = Null /\ doc = <<>> /\ jsonText = <<>> /\ parsed = Null
    /\ pc = "idle" /\ blob = Null /\ url = 0 /\ liveUrls = {} /\ anchors = 0
    /\ clicks = <<>> /\ created = 0
    /\ InitButton
    /\ \E fallback \in {Undefined, "custom fallback"},
          title \in {Undefined, SimulationBoundaryProps.title} :
          InitBoundary([fallback |-> fallback, title |-> title])

NextBoundary == ChildThrows \/ HandleRetry

SpecBoundary == InitBoundarySpec /\ [][NextBoundary]_vars

(***************************************************************************)
(* ExportButton (part_002): the dialog, the four format buttons and        *)
(* handleExport.  A handleExport call runs without interruption up to its  *)
(* await or its end; json and md end in the event handler that started     *)
(* them, pdf and word end when their promise settles.                      *)
(***************************************************************************)
ButtonNeverDisabled(exp) == FALSE

\* disabled={exporting !== null} on each of the four buttons
ButtonDisabled(exp) == ~IsNull(exp)

\* a handleExport call is between its start and its await or end
InEventHandler == \E i \in 1..Len(handlers) : handlers[i].at # "await"

CanClickFormat ==
    /\ open
    /\ ~ButtonDisabled(exporting)
    /\ ~InEventHandler
    /\ Len(handlers) + Len(outcomes) < MaxExports

\* the dialog's onOpenChange={setOpen}: the trigger opens it, Escape or a
\* click outside closes it
ToggleDialog ==
    /\ ~InEventHandler
    /\ open' = ~open
    /\ UNCHANGED <<data, exportVars, jsonVars, downloadVars, boundaryVars,
                   exporting, handlers, outcomes>>

\* lines 26-32: setExporting('json'); downloadJson(data, filename)
HandleExportJson ==
    /\ CanClickFormat
    /\ exporting' = Some("json")
    /\ handlers' = Append(handlers, [format |-> "json", at |-> "download"])
    /\ DownloadJsonCall
    /\ UNCHANGED <<boundaryVars, open, outcomes>>

\* lines 26-34: setExporting('md'); downloadMarkdown(data, filename)
HandleExportMarkdown ==
    /\ CanClickFormat
    /\ exporting' = Some("md")
    /\ handlers' = Append(handlers, [format |-> "md", at |-> "download"])
    /\ DownloadMarkdownCall
    /\ UNCHANGED <<boundaryVars, open, outcomes>>

\* lines 26-38: setExporting(format); await downloadPdfExport(data) or
\* await downloadWordExport(data)
HandleExportAsync ==
    /\ CanClickFormat
    /\ \E format \in {"pdf", "word"} :
          /\ exporting' = Some(format)
          /\ handlers' = Append(handlers, [format |-> format, at |-> "await"])
    /\ UNCHANGED <<data, exportVars, jsonVars, downloadVars, boundaryVars, open, outcomes>>

\* lines 41-44: after the export returned, setOpen(false); in every case the
\* finally block's setExporting(null)
EndOfHandleExport(i, ok) ==
    /\ open' = IF ok THEN FALSE ELSE open
    /\ exporting' = Null
    /\ handlers' = SubSeq(handlers, 1, i - 1) \o SubSeq(handlers, i + 1, Len(handlers))
    /\ outcomes' = Append(outcomes, [format |-> handlers[i].format,
                                      result |-> IF ok THEN "returned" ELSE "threw"])
    /\ UNCHANGED <<data, exportVars, jsonVars, downloadVars, boundaryVars>>

\* downloadJson or downloadMarkdown returned, or threw what downloadBlob threw
DownloadEnds ==
    \E i \in 1..Len(handlers) :
        /\ handlers[i].at = "download"
        /\ pc \in {"done", "thrown"}
        /\ EndOfHandleExport(i, pc = "done")

\* the promise of downloadPdfExport or downloadWordExport is fulfilled or rejected
PromiseSettles ==
    \E i \in 1..Len(handlers) :
        /\ handlers[i].at = "await"
        /\ ~InEventHandler
        /\ \E ok \in BOOLEAN : EndOfHandleExport(i, ok)

\* the page renders the button only when there is a report
InitButtonSpec ==
    /\ data \in {d \in DownloadSnapshots :
                     ~IsNull(d.report) /\ Len(d.evidences) = 0 /\ IsNull(d.detectData)}
    /\ InitExport

NextButton ==
    \/ ToggleDialog
    \/ HandleExportJson
    \/ HandleExportMarkdown
    \/ HandleExportAsync
    \/ downloadBlob
    \/ DownloadEnds
    \/ PromiseSettles

SpecButton == InitButtonSpec /\ [][NextButton]_vars

(***************************************************************************)
(* The export module as a whole                                            *)
(***************************************************************************)
Init == data \in DownloadSnapshots /\ InitExport

Next == NextResolver \/ NextMarkdown \/ NextJson \/ NextDownload

Spec == Init /\ [][Next]_vars

(***************************************************************************)
(* Claims about resolvePrimaryClarification (SpecResolver)                 *)
(***************************************************************************)
ResolverRan == op = "resolvePrimaryClarification"
Clarifications == Get(data.content).clarifications
PrimaryId == Get(data.content).primary_clarification_id
IsLatest(v, list) ==
    /\ v \in Range(list)
    /\ \A w \in Range(list) : localeCompare(w.generated_at, v.generated_at) <= 0

\* C1: a primary_clarification_id that is set but matches no variant makes the
\* resolver fall through to the latest-selection rule: the result is a variant
\* with the greatest generated_at, and it is null only if clarifications is empty.
C1_StaleIdFallsBackToLatest ==
    (/\ ResolverRan
     /\ ~IsNull(data.content)
     /\ Truthy(PrimaryId)
     /\ \A v \in Range(Clarifications) : v.id # PrimaryId)
    => /\ IsNull(resolved) => Len(Clarifications) = 0
       /\ ~IsNull(resolved) => IsLatest(Get(resolved), Clarifications)

\* C2: absent content gives null; an empty clarifications list gives null; a
\* primary id that matches a variant gives exactly that variant whatever the
\* timestamps; with no primary id set the result is a variant of the list whose
\* generated_at is greater than or equal to that of every variant of the list.
C2_ResolverContract ==
    ResolverRan =>
        IF IsNull(data.content) THEN IsNull(resolved)
        ELSE /\ Len(Clarifications) = 0 => IsNull(resolved)
             /\ \A i \in 1..Len(Clarifications) :
                    (Truthy(PrimaryId) /\ Clarifications[i].id = PrimaryId)
                    => resolved = Some(Clarifications[i])
             /\ (~Truthy(PrimaryId) /\ Len(Clarifications) > 0)
                    => /\ ~IsNull(resolved)
                       /\ IsLatest(Get(resolved), Clarifications)

\* C2 witness: the resolver ran with no primary id on a list whose latest variant
\* is not the first of the array, and with a primary id naming an older variant.
C2_Witness ==
    /\ ResolverRan
    /\ ~IsNull(data.content)
    /\ Len(Clarifications) = 3
    /\ ~Truthy(PrimaryId)
    /\ localeCompare(Clarifications[1].generated_at, Clarifications[3].generated_at) < 0
    /\ localeCompare(Clarifications[2].generated_at, Clarifications[3].generated_at) < 0
    /\ resolved = Some(Clarifications[3])

(***************************************************************************)
(* Claims about generateMarkdown (SpecMarkdown)                            *)
(***************************************************************************)
MarkdownRan == op = "generateMarkdown"

Count(lines, tag) == Cardinality({i \in 1..Len(lines) : lines[i][1] = tag})
HasLine(lines, tag) == \E i \in 1..Len(lines) : lines[i][1] = tag

AlignedPrecondition ==
    /\ Len(data.report) = 1
    /\ Len(data.report[1].claim_reports) > 0

RawNote == "*Note: raw retrieved evidence, not aligned*"
RawEntryHeading == "#### Evidence _: _"
GroupHeading == "### _: _"

\* C3: when report is non-null and report.claim_reports is non-empty the
\* evidence chain is rendered by the aligned strategy only: the document has no
\* raw-fallback note and no raw evidence entry, and it is the document of the
\* same snapshot with an empty raw evidences array.
C3_AlignedStrategyExclusive ==
    (MarkdownRan /\ AlignedPrecondition)
    => /\ ~HasLine(doc, RawNote)
       /\ ~HasLine(doc, RawEntryHeading)
       /\ Count(doc, GroupHeading) = Len(data.report[1].claim_reports)
       /\ doc = generateMarkdown([data EXCEPT !.evidences = <<>>])

C3_Witness ==
    /\ MarkdownRan
    /\ AlignedPrecondition
    /\ Len(data.evidences) = MaxEvidences
    /\ HasLine(doc, "#### Evidence _: _ _")

\* C4: the raw fallback is chosen exactly when the aligned precondition fails
\* and evidences is non-empty; when the aligned precondition fails and evidences
\* is empty the document has no evidence chain heading; the evidence chain
\* heading occurs at most once in every document.
C4_EvidenceStrategyDecision ==
    MarkdownRan
    => /\ HasLine(doc, RawNote) <=> (~AlignedPrecondition /\ Len(data.evidences) > 0)
       /\ (~AlignedPrecondition /\ Len(data.evidences) = 0)
              => ~HasLine(doc, "## Evidence chain")
       /\ Count(doc, "## Evidence chain") <= 1

C4_Witness ==
    /\ MarkdownRan
    /\ Len(data.report) = 1
    /\ Len(data.report[1].claim_reports) = 0
    /\ Len(data.evidences) = 2
    /\ HasLine(doc, RawNote)

\* the group of an evidence: its claim_id, "unknown" when it has none
GroupOf(e) == IF e.claim_id \in {Undefined, ""} THEN "unknown" ELSE e.claim_id

\* the positions of evidences at which a group key occurs for the first time
FirstSeen(evidences) ==
    SelectSeq([i \in 1..Len(evidences) |-> i],
              LAMBDA i : \A j \in 1..(i - 1) : GroupOf(evidences[j]) # GroupOf(evidences[i]))

GroupOutline(evidences, key) ==
    << <<"group", key>> >>
    \o FlatMap(LAMBDA e, n : << <<"evidence", n, e.title, e.url>> >>,
               SelectSeq(evidences, LAMBDA e : GroupOf(e) = key))

ExpectedOutline(evidences) ==
    FlatMap(LAMBDA i, n : GroupOutline(evidences, GroupOf(evidences[i])),
            FirstSeen(evidences))

\* the group headings and the entries (number, title, link) of a raw evidence
\* chain, in document order
LinkLine == "**Link**: [_](_)"

RECURSIVE OutlineOf(_)
OutlineOf(marks) ==
    IF Len(marks) = 0 THEN <<>>
    ELSE IF marks[1][1] = GroupHeading
         THEN << <<"group", marks[1][2]>> >> \o OutlineOf(Tail(marks))
    ELSE IF marks[1][1] = RawEntryHeading /\ Len(marks) > 1 /\ marks[2][1] = LinkLine
         THEN << <<"evidence", marks[1][2], marks[1][3][2], marks[2][2]>> >>
              \o OutlineOf(Tail(Tail(marks)))
    ELSE << <<"stray", marks[1][1]>> >> \o OutlineOf(Tail(marks))

RawOutline(lines) ==
    OutlineOf(SelectSeq(lines, LAMBDA l : l[1] \in {GroupHeading, RawEntryHeading, LinkLine}))

\* C5: in the raw fallback the evidences are grouped by claim_id, those without
\* a claim_id under "unknown"; groups come in the order their key first occurs
\* in evidences; every evidence is rendered once, in its group, in array order
\* within the group, numbered from 1.
C5_RawFallbackGrouping ==
    (MarkdownRan /\ ~AlignedPrecondition /\ Len(data.evidences) > 0)
    => RawOutline(doc) = ExpectedOutline(data.evidences)

C5_Witness ==
    /\ MarkdownRan
    /\ ~AlignedPrecondition
    /\ Len(data.evidences) = 3
    /\ data.evidences[1].claim_id = "C2"
    /\ data.evidences[2].claim_id = Undefined
    /\ data.evidences[3].claim_id = "C2"
    /\ data.evidences[1].title # data.evidences[3].title
    /\ RawOutline(doc)[1] = <<"group", "C2">>
    /\ RawOutline(doc)[4] = <<"group", "unknown">>

HeadingTags ==
    {"## Original input", "## Risk snapshot", "## Claims", "## Evidence chain",
     "## Report summary", "## Simulation", "## Response content",
     GroupHeading, RawEntryHeading, "#### Evidence _: _ _", "### Claim conclusions",
     "#### _", "### Emotion distribution", "### Stance distribution",
     "### Narratives", "### Flashpoints", "### Suggestions",
     "### Clarification (primary: _)", "#### Short", "#### Medium", "#### Long",
     "### Clarification (other versions)", "#### Version _ (_)", "### FAQ",
     "### Platform scripts"}

Headings(lines) == SelectSeq(lines, LAMBDA l : l[1] \in HeadingTags)

\* the document that holds the title, the export timestamp, the quoted input
\* and the footer, and nothing else
IsBareDocument ==
    /\ Headings(doc) = << <<"## Original input">> >>
    /\ Len(doc) = 10 + Len(data.inputText)
    /\ doc[1] = <<"# TruthCast report">>
    /\ doc[3] = <<"**Exported at**: _", data.exportedAt>>
    /\ \A i \in 1..Len(data.inputText) : doc[6 + i] = <<"> _", data.inputText[i]>>
    /\ doc[Len(doc) - 2] = <<"---">>
    /\ doc[Len(doc)][1] = "*Generated automatically by TruthCast, for decision support only.*"

NothingBeyondDetection ==
    /\ IsNull(data.report)
    /\ IsNull(data.simulation)
    /\ IsNull(data.content)
    /\ Len(data.claims) = 0
    /\ Len(data.evidences) = 0

\* C6 as stated: a snapshot with report, simulation and content null and empty
\* claims and evidences gives a document holding only the title, the export
\* timestamp, the original input and the footer.
C6_OmissionAsStated ==
    (MarkdownRan /\ NothingBeyondDetection) => IsBareDocument

\* C6 amended: a snapshot with detectData, report, simulation and content null
\* and empty claims and evidences gives a document holding only the title, the
\* export timestamp, the original input and the footer, with no other heading.
C6_Omission ==
    (MarkdownRan /\ NothingBeyondDetection /\ IsNull(data.detectData)) => IsBareDocument

C6_Witness ==
    /\ MarkdownRan
    /\ NothingBeyondDetection
    /\ IsNull(data.detectData)
    /\ Len(data.inputText) = 2
    /\ Len(doc) = 12

\* the top-level landmarks of a document, in document order
TopLevelTags ==
    {"# TruthCast report", "**Exported at**: _", "## Original input",
     "## Risk snapshot", "## Claims", "## Evidence chain", "## Report summary",
     "## Simulation", "## Response content", "---"}

TopLevel(lines) ==
    LET marks == SelectSeq(lines, LAMBDA l : l[1] \in TopLevelTags)
    IN  [i \in 1..Len(marks) |-> marks[i][1]]

SectionPresent(tag) ==
    CASE tag = "## Risk snapshot"    -> ~IsNull(data.detectData)
      [] tag = "## Claims"           -> Len(data.claims) > 0
      [] tag = "## Evidence chain"   -> AlignedPrecondition \/ Len(data.evidences) > 0
      [] tag = "## Report summary"   -> ~IsNull(data.report)
      [] tag = "## Simulation"       -> ~IsNull(data.simulation)
      [] tag = "## Response content" -> ~IsNull(data.content)
      [] OTHER                       -> TRUE

FixedOrder ==
    <<"# TruthCast report", "**Exported at**: _", "## Original input",
      "## Risk snapshot", "## Claims", "## Evidence chain", "## Report summary",
      "## Simulation", "## Response content", "---">>

\* C7: the top-level sections of every document are, in this order, title,
\* export timestamp, original input, risk snapshot, claim table, evidence
\* chain, report summary, simulation, response content, footer, each once,
\* without exactly those whose precondition fails; title, timestamp, original
\* input and footer are always there.
C7_FixedSectionOrder ==
    MarkdownRan => TopLevel(doc) = SelectSeq(FixedOrder, SectionPresent)

C7_Witness ==
    /\ MarkdownRan
    /\ TopLevel(doc) = <<"# TruthCast report", "**Exported at**: _", "## Original input",
                         "## Claims", "## Report summary", "## Response content", "---">>

(***************************************************************************)
(* Claims about downloadJson (SpecJson)                                    *)
(***************************************************************************)
\* C8: parsing the text downloadJson serializes from a snapshot gives back the
\* snapshot: the same members with the same keys in the same order and the
\* same values, none renamed, left out or added, optional ones included.
C8_JsonRoundTrip ==
    op = "JSON.parse" => parsed = Some(ExportDataJs(data))

C8_Witness ==
    /\ op = "JSON.parse"
    /\ parsed = Some(ExportDataJs(data))
    /\ IsNull(data.detectData)
    /\ ~IsNull(data.content)
    /\ Len(Get(data.content).clarifications) = 2
    /\ Len(data.evidences) = 2
    /\ data.evidences[2].claim_id = Undefined
    /\ ~IsNull(data.simulation)
    /\ IsNull(Get(data.simulation).suggestion)

(***************************************************************************)
(* Claims about downloadBlob (SpecDownload)                                *)
(***************************************************************************)
\* C10: no execution of downloadBlob ends, normally or by an exception of the
\* save action, with an object URL that was created and not revoked.
C10_UrlRevokedOnEveryPath ==
    pc \in {"done", "thrown"} => liveUrls = {}

(***************************************************************************)
(* Claims about the simulation section (SpecMarkdown)                      *)
(***************************************************************************)
ActionRows(lines) == SelectSeq(lines, LAMBDA l : l[1] = "| _ | _ | _ | _ | _ |")

\* the actions whose table the document carries
SuggestedActions(d) ==
    IF IsNull(d.simulation) THEN <<>>
    ELSE IF IsNull(Get(d.simulation).suggestion) THEN <<>>
    ELSE IF ~Truthy(Get(Get(d.simulation).suggestion).summary) THEN <<>>
    ELSE Get(Get(d.simulation).suggestion).actions

ExpectedPriorityCell(code) ==
    CASE code = "urgent" -> "label:urgent"
      [] code = "high"   -> "label:high"
      [] code = "medium" -> "label:medium"
      [] OTHER           -> code

ExpectedCategoryCell(code) ==
    CASE code = "official" -> "label:official"
      [] code = "media"    -> "label:media"
      [] code = "platform" -> "label:platform"
      [] code = "user"     -> "label:user"
      [] OTHER             -> code

\* C11: the suggested-actions table has one row per action, in order; a priority
\* in {urgent, high, medium} and a category in {official, media, platform, user}
\* show their mapped label, every other code shows the raw code unchanged.
C11_UnknownCodePassthrough ==
    MarkdownRan =>
        LET rows == ActionRows(doc)
            actions == SuggestedActions(data)
        IN  /\ Len(rows) = Len(actions)
            /\ \A i \in 1..Len(actions) :
                  /\ rows[i][2] = ExpectedPriorityCell(actions[i].priority)
                  /\ rows[i][3] = ExpectedCategoryCell(actions[i].category)

\* the part of C11 that the code keeps: codes that name no member of
\* Object.prototype
C11_PassthroughOfPlainCodes ==
    MarkdownRan =>
        LET rows == ActionRows(doc)
            actions == SuggestedActions(data)
        IN  /\ Len(rows) = Len(actions)
            /\ \A i \in 1..Len(actions) :
                  /\ ObjectPrototypeText(actions[i].priority) = Undefined
                        => rows[i][2] = ExpectedPriorityCell(actions[i].priority)
                  /\ ObjectPrototypeText(actions[i].category) = Undefined
                        => rows[i][3] = ExpectedCategoryCell(actions[i].category)

(***************************************************************************)
(* Claims about numeric formatting (SpecMarkdown)                          *)
(***************************************************************************)
\* the evidences of the aligned strategy in rendering order
AlignedEvidences(d) ==
    IF HasClaimReports(d)
    THEN FlatMap(LAMBDA cr, i : cr.evidences, Get(d.report).claim_reports)
    ELSE <<>>

\* the evidences whose weight the document shows
RenderedEvidences(d) ==
    IF HasClaimReports(d) THEN AlignedEvidences(d) ELSE d.evidences

Distributions(d) ==
    IF IsNull(d.simulation) THEN <<>>
    ELSE Get(d.simulation).emotion_distribution \o Get(d.simulation).stance_distribution

Narratives(d) == IF IsNull(d.simulation) THEN <<>> ELSE Get(d.simulation).narratives

CellsOf(lines, tag, k) ==
    LET marks == SelectSeq(lines, LAMBDA l : l[1] = tag)
    IN  [i \in 1..Len(marks) |-> marks[i][k]]

RECURSIVE DigitsValue(_)
DigitsValue(ds) ==
    IF Len(ds) = 0 THEN 0 ELSE 10 * DigitsValue(SubSeq(ds, 1, Len(ds) - 1)) + ds[Len(ds)]

\* cell shows exactly f fraction digits and is a multiple of 10^-f nearest to
\* n ten-thousandths
IsRounded(cell, n, f) ==
    LET q == cell[2] * Pow10(f) + DigitsValue(cell[3])
        diff == q * Pow10(4 - f) - n
    IN  /\ cell[1] = "toFixed"
        /\ cell[2] >= 0
        /\ Len(cell[3]) = f
        /\ \A i \in 1..f : cell[3][i] \in 0..9
        /\ 2 * diff <= Pow10(4 - f)
        /\ 2 * diff >= 0 - Pow10(4 - f)

\* C12: every evidence weight and alignment confidence is shown rounded to
\* exactly 2 decimals, every emotion or stance fraction as 100 times the
\* fraction rounded to exactly 1 decimal, every narrative probability as 100
\* times the probability rounded to 0 decimals.
C12_NumericFormatting ==
    MarkdownRan =>
        LET weights == CellsOf(doc, "| Weight | _ |", 2)
            evidences == RenderedEvidences(data)
            confidences == CellsOf(doc, "| Alignment confidence | _ |", 2)
            aligned == SelectSeq(AlignedEvidences(data),
                                 LAMBDA e : ~IsNull(e.alignment_confidence))
            shares == CellsOf(doc, "| _ | _% |", 3)
            probabilities == CellsOf(doc, "_. **_** (_%)", 4)
        IN  /\ Len(weights) = Len(evidences)
            /\ HasClaimReports(data) =>
                  \A i \in 1..Len(weights) :
                      IsRounded(weights[i], evidences[i].source_weight, 2)
            /\ \A i \in 1..Len(weights) : \E j \in 1..Len(evidences) :
                  IsRounded(weights[i], evidences[j].source_weight, 2)
            /\ Len(confidences) = Len(aligned)
            /\ \A i \in 1..Len(confidences) :
                  IsRounded(confidences[i], Get(aligned[i].alignment_confidence), 2)
            /\ Len(shares) = Len(Distributions(data))
            /\ \A i \in 1..Len(shares) :
                  IsRounded(shares[i], Distributions(data)[i][2] * 100, 1)
            /\ Len(probabilities) = Len(Narratives(data))
            /\ \A i \in 1..Len(probabilities) :
                  IsRounded(probabilities[i], Narratives(data)[i].probability * 100, 0)

\* 0.8567 is shown as 0.86, 0.1234 as 12.3% and 0.42 as 42%
C12_Witness ==
    /\ MarkdownRan
    /\ HasClaimReports(data)
    /\ Len(AlignedEvidences(data)) > 0
    /\ Len(Distributions(data)) > 0
    /\ Len(Narratives(data)) > 0
    /\ AlignedEvidences(data)[1].source_weight = 8567
    /\ CellsOf(doc, "| Weight | _ |", 2)[1] = <<"toFixed", 0, <<8, 6>> >>
    /\ Distributions(data)[1][2] = 1234
    /\ CellsOf(doc, "| _ | _% |", 3)[1] = <<"toFixed", 12, <<3>> >>
    /\ Narratives(data)[1].probability = 4200
    /\ CellsOf(doc, "_. **_** (_%)", 4)[1] = <<"toFixed", 42, <<>> >>

(***************************************************************************)
(* Claims about the aligned strategy (SpecMarkdown)                        *)
(***************************************************************************)
IndexOf(lines, tag) == CHOOSE i \in 1..Len(lines) : lines[i][1] = tag

\* the lines of the evidence chain section of an aligned document
AlignedChain(lines) ==
    SubSeq(lines, IndexOf(lines, "## Evidence chain"),
           IndexOf(lines, "## Report summary") - 1)

AlignedOutline(lines) ==
    LET marks == SelectSeq(AlignedChain(lines),
                     LAMBDA l : l[1] \in {"### _: _", "**Final stance**: _",
                                          "*No aligned evidence*", "#### Evidence _: _ _"})
    IN  [i \in 1..Len(marks) |->
            IF marks[i][1] = "#### Evidence _: _ _" THEN <<"evidence", marks[i][2]>>
            ELSE marks[i]]

ExpectedSubsection(cr, i) ==
    << <<"### _: _", cr.claim.claim_id, cr.claim.claim_text>>,
       <<"**Final stance**: _", zhStance(cr.final_stance)>> >>
    \o (IF Len(cr.evidences) = 0 THEN << <<"*No aligned evidence*">> >>
        ELSE [j \in 1..Len(cr.evidences) |-> <<"evidence", j>>])

\* C13: the aligned evidence chain is one subsection per ClaimReport in the
\* order of report.claim_reports: the heading of claim_id and claim_text, the
\* final stance, then the evidence entries in order, or for a ClaimReport
\* without evidences the no-aligned-evidence placeholder and no entry; the
\* ClaimReports after such a one are rendered as well.
C13_AlignedSubsections ==
    (MarkdownRan /\ HasClaimReports(data)) =>
        AlignedOutline(doc) = FlatMap(ExpectedSubsection, Get(data.report).claim_reports)

C13_Witness ==
    /\ MarkdownRan
    /\ HasClaimReports(data)
    /\ Len(Get(data.report).claim_reports) = 3
    /\ Len(Get(data.report).claim_reports[1].evidences) = 0
    /\ Len(Get(data.report).claim_reports[2].evidences) = 3
    /\ Len(Get(data.report).claim_reports[3].evidences) = 0
    /\ Count(doc, "*No aligned evidence*") = 2
    /\ Count(doc, "#### Evidence _: _ _") = 3

(***************************************************************************)
(* Claims about the response content section (SpecContent)                 *)
(***************************************************************************)
\* the entries under "other versions": number, style and the text below
OtherVersions(lines) ==
    LET pos == SelectSeq([i \in 1..Len(lines) |-> i],
                         LAMBDA i : lines[i][1] = "#### Version _ (_)")
    IN  [k \in 1..Len(pos) |->
            [number |-> lines[pos[k]][2], style |-> lines[pos[k]][3],
             text |-> lines[pos[k] + 2][2]]]

HasText(lines, text) == \E i \in 1..Len(lines) : lines[i] = <<"_", text>>

\* the variants other than the resolved primary
ExpectedOthers(list, primary) ==
    {v \in Range(list) : IsNull(primary) \/ v.id # Get(primary).id}

VariantWithMedium(list, text) == CHOOSE v \in Range(list) : v.content.medium = text

\* C14: with a content draft, the entries under "other versions" are exactly
\* the variants whose id differs from the resolved primary's id, each once, in
\* descending generated_at order, numbered 1, 2, ..., each showing its medium
\* text and neither its short nor its long text; the primary is not among them
\* and primary and others together are the whole clarifications list.
C14_OtherVariants ==
    (MarkdownRan /\ ~IsNull(data.content)) =>
        LET list == Clarifications
            primary == resolvePrimaryClarification(data.content)
            others == OtherVersions(doc)
            expected == ExpectedOthers(list, primary)
        IN  /\ Len(others) = Cardinality(expected)
            /\ {others[k].text : k \in 1..Len(others)} =
                   {v.content.medium : v \in expected}
            /\ \A k \in 1..Len(others) :
                  /\ others[k].number = k
                  /\ others[k].style = VariantWithMedium(list, others[k].text).style
            /\ \A j, k \in 1..Len(others) :
                  j < k => localeCompare(
                               VariantWithMedium(list, others[j].text).generated_at,
                               VariantWithMedium(list, others[k].text).generated_at) >= 0
            /\ \A v \in expected :
                  ~HasText(doc, v.content.short) /\ ~HasText(doc, v.content.long)
            /\ ~IsNull(primary) =>
                  /\ \A k \in 1..Len(others) : others[k].text # Get(primary).content.medium
                  /\ HasText(doc, Get(primary).content.short)
                  /\ HasText(doc, Get(primary).content.medium)
                  /\ HasText(doc, Get(primary).content.long)
            /\ Len(others) + (IF IsNull(primary) THEN 0 ELSE 1) = Len(list)

\* three variants out of order, the latest is the primary, the two others are
\* listed latest first
C14_Witness ==
    /\ MarkdownRan
    /\ ~IsNull(data.content)
    /\ Len(Clarifications) = 3
    /\ PrimaryId = Undefined
    /\ Clarifications[1].generated_at = <<1>>
    /\ Clarifications[2].generated_at = <<2>>
    /\ Clarifications[3].generated_at = <<1, 2>>
    /\ Len(OtherVersions(doc)) = 2
    /\ OtherVersions(doc)[1].text = Clarifications[3].content.medium
    /\ OtherVersions(doc)[2].text = Clarifications[1].content.medium

(***************************************************************************)
(* Claims about the simulation sub-blocks (SpecMarkdown)                   *)
(***************************************************************************)
HasSuggestionSummary(sim) ==
    ~IsNull(sim.suggestion) /\ Truthy(Get(sim.suggestion).summary)

\* C15: in a rendered simulation section each sub-block's heading is there
\* exactly when the sub-block has a body: a non-empty emotion distribution, a
\* non-empty stance distribution, a non-empty narratives list, a non-empty
\* flashpoints list, a present suggestion.summary.
C15_SubBlocksGuarded ==
    (MarkdownRan /\ ~IsNull(data.simulation)) =>
        LET sim == Get(data.simulation)
        IN  /\ HasLine(doc, "### Emotion distribution") <=> Len(sim.emotion_distribution) > 0
            /\ HasLine(doc, "### Stance distribution") <=> Len(sim.stance_distribution) > 0
            /\ HasLine(doc, "### Narratives") <=> Len(sim.narratives) > 0
            /\ HasLine(doc, "### Flashpoints") <=> Len(sim.flashpoints) > 0
            /\ HasLine(doc, "### Suggestions") <=> HasSuggestionSummary(sim)

(***************************************************************************)
(* Claims about the aligned evidence entries (SpecMarkdown)                *)
(***************************************************************************)
Positions(lines, tags) ==
    SelectSeq([i \in 1..Len(lines) |-> i], LAMBDA i : lines[i][1] \in tags)

\* the k-th evidence entry of an aligned document: from its heading up to the
\* next entry, the next claim's subsection or the end of the evidence chain
EvidenceEntry(lines, k) ==
    LET from == Positions(lines, {"#### Evidence _: _ _"})[k]
        to == CHOOSE j \in (from + 1)..Len(lines) :
                 /\ lines[j][1] \in {"#### Evidence _: _ _", "### _: _", "## Report summary"}
                 /\ \A i \in (from + 1)..(j - 1) :
                       lines[i][1] \notin {"#### Evidence _: _ _", "### _: _",
                                           "## Report summary"}
    IN  SubSeq(lines, from, to - 1)

LastLine(entry) ==
    LET body == SelectSeq(entry, LAMBDA l : l # Blank) IN body[Len(body)]

UrlList(entry) ==
    LET items == SelectSeq(entry, LAMBDA l : l[1] = "_. [_](_)")
    IN  [i \in 1..Len(items) |-> <<items[i][2], items[i][3], items[i][4]>>]

EndsWithUrlList(entry, e) ==
    /\ Count(entry, "**Source links** (_):") = 1
    /\ UrlList(entry) = [i \in 1..Len(e.source_urls) |->
                            <<i, e.source_urls[i], e.source_urls[i]>>]
    /\ Count(entry, "**Link**: [_](_)") = 0
    /\ LastLine(entry)[1] \in {"_. [_](_)", "**Source links** (_):"}

EndsWithSingleLink(entry, e) ==
    /\ Count(entry, "**Link**: [_](_)") = 1
    /\ LastLine(entry) = <<"**Link**: [_](_)", e.url, e.url>>
    /\ Count(entry, "**Source links** (_):") = 0
    /\ Count(entry, "_. [_](_)") = 0

RawShape(entry, e) ==
    /\ entry[1][3] = zhText(e.title)
    /\ entry[1][4] = ""
    /\ Count(entry, "**Summary**: _") = (IF Truthy(e.summary) THEN 1 ELSE 0)
    /\ EndsWithSingleLink(entry, e)

\* C16: in the aligned strategy an evidence of source_type web_summary is
\* titled by its summary, marked as aggregated, has no summary block and ends
\* with the numbered list of all its source_urls and no single link; any other
\* evidence is titled by its title, has a summary block exactly when it has a
\* summary, and ends with one link to its url and no numbered list.
C16_ShapeDispatch ==
    (MarkdownRan /\ HasClaimReports(data)) =>
        \A k \in 1..Len(AlignedEvidences(data)) :
            LET e == AlignedEvidences(data)[k]
                entry == EvidenceEntry(doc, k)
            IN  IF e.source_type = "web_summary"
                THEN /\ entry[1][3] = zhText(e.summary)
                     /\ entry[1][4] = "*(aggregated)*"
                     /\ Count(entry, "**Summary**: _") = 0
                     /\ EndsWithUrlList(entry, e)
                ELSE RawShape(entry, e)

\* what the code does for every evidence: an aggregated one without a summary
\* is titled by its title, one without source_urls ends with the single link
C16_ShapeDispatchAsCoded ==
    (MarkdownRan /\ HasClaimReports(data)) =>
        \A k \in 1..Len(AlignedEvidences(data)) :
            LET e == AlignedEvidences(data)[k]
                entry == EvidenceEntry(doc, k)
            IN  IF e.source_type = "web_summary"
                THEN /\ entry[1][3] = (IF Truthy(e.summary) THEN zhText(e.summary)
                                       ELSE zhText(e.title))
                     /\ entry[1][4] = "*(aggregated)*"
                     /\ Count(entry, "**Summary**: _") = 0
                     /\ IF Len(e.source_urls) > 0 THEN EndsWithUrlList(entry, e)
                        ELSE EndsWithSingleLink(entry, e)
                ELSE RawShape(entry, e)

(***************************************************************************)
(* Claims about the raw fallback's group headings (SpecMarkdown)           *)
(***************************************************************************)
NotAssociated == "(not associated with any claim)"

RawPrecondition == ~AlignedPrecondition /\ Len(data.evidences) > 0

GroupHeadings(lines) == SelectSeq(lines, LAMBDA l : l[1] = GroupHeading)

ClaimsWithId(claims, id) == {c \in Range(claims) : c.claim_id = id}

\* C17: in the raw fallback the heading of every group, "unknown" included,
\* shows the claim_text of the claim whose claim_id is the group key, and the
\* fixed not-associated text when claims has no such claim; every group key of
\* the evidences has its heading and every evidence its entry.
C17_UnresolvedClaimReference ==
    (MarkdownRan /\ RawPrecondition) =>
        LET heads == GroupHeadings(doc)
        IN  /\ {heads[i][2] : i \in 1..Len(heads)} =
                   {GroupOf(e) : e \in Range(data.evidences)}
            /\ \A i \in 1..Len(heads) :
                  IF ClaimsWithId(data.claims, heads[i][2]) = {}
                  THEN heads[i][3] = NotAssociated
                  ELSE \E c \in ClaimsWithId(data.claims, heads[i][2]) :
                          heads[i][3] = c.claim_text
            /\ Count(doc, RawEntryHeading) = Len(data.evidences)

\* a group of a claim that is in claims, a group of a claim that is not, and
\* the unknown group, in one document
C17_Witness ==
    /\ MarkdownRan
    /\ RawPrecondition
    /\ Len(data.claims) = 1
    /\ GroupHeadings(doc) = << <<GroupHeading, "C2", NotAssociated>>,
                               <<GroupHeading, "C1", "claim one">>,
                               <<GroupHeading, "unknown", NotAssociated>> >>
    /\ Count(doc, RawEntryHeading) = 3

(***************************************************************************)
(* Claims about the snapshot as the exports leave it (SpecContent)         *)
(***************************************************************************)
\* C19: no step of resolvePrimaryClarification, generateMarkdown or
\* downloadJson's serialization changes the snapshot: content.clarifications,
\* claims, evidences and report.claim_reports keep their order and contents,
\* also when the variants are sorted to resolve the primary or to list the
\* other versions.
C19_SnapshotUnchanged == [][data' = data]_vars

\* an export that sorted variants which were not in descending order
C19_Witness ==
    /\ op \in {"generateMarkdown", "resolvePrimaryClarification"}
    /\ ~IsNull(data.content)
    /\ PrimaryId = Undefined
    /\ Len(Clarifications) = 3
    /\ sortByGeneratedAtDesc(Clarifications) # Clarifications
    /\ OtherVariants(Clarifications, resolvePrimaryClarification(data.content))
           # sortByGeneratedAtDesc(OtherVariants(Clarifications,
                                     resolvePrimaryClarification(data.content)))

(***************************************************************************)
(* Claims about ErrorBoundary (SpecBoundary)                               *)
(***************************************************************************)
DisplayingContent == rendered = <<"children">>
DisplayingFallback == rendered[1] \in {"fallback", "card"}

\* C18: the boundary starts displaying its content with hasError false and
\* error null; it displays the fallback exactly when hasError is true, and
\* hasError is true exactly when error is non-null; it enters the fallback
\* only by catching a child's render error, which becomes its error; it
\* leaves the fallback only by the user's retry, which clears the error.
C18_TwoStateMachine ==
    /\ [](hasError <=> ~IsNull(error))
    /\ [](DisplayingFallback <=> hasError)
    /\ [](DisplayingContent <=> ~hasError)
    /\ []((Len(logged) = 0) => (DisplayingContent /\ ~hasError /\ IsNull(error)))
    /\ [][(~hasError /\ hasError') =>
             (/\ Len(logged') = Len(logged) + 1
              /\ error' = Some(logged'[Len(logged')])
              /\ retries' = retries)]_vars
    /\ [][(hasError /\ ~hasError') =>
             (/\ retries' = retries + 1
              /\ logged' = logged
              /\ IsNull(error'))]_vars
    /\ [][(hasError /\ hasError') => error' = error]_vars

\* after a retry another child error has brought the fallback back
C18_Witness ==
    /\ hasError
    /\ retries = 1
    /\ Len(logged) = 2
    /\ rendered = <<"card", SimulationBoundaryProps.title, Some(logged[2]), "retry button">>

(***************************************************************************)
(* Claims about ExportButton (SpecButton)                                  *)
(***************************************************************************)
ExportStarts == Len(handlers') = Len(handlers) + 1
ExportEnds == Len(outcomes') = Len(outcomes) + 1

\* C20: exporting is null while no handleExport call is in flight, from the
\* start on and again after every call has ended, by return or by exception,
\* of a synchronous or an asynchronous export; it is the chosen format while
\* the call is in flight; a call starts only from the open dialog with
\* exporting null, so at most one call is in flight; the end of a call closes
\* the dialog when the export returned and leaves it as it is when it threw.
C20_ExportingFlag ==
    /\ []((Len(handlers) = 0) => IsNull(exporting))
    /\ []((Len(handlers) > 0) => exporting = Some(handlers[1].format))
    /\ [](Len(handlers) <= 1)
    /\ [][ExportStarts =>
             (/\ IsNull(exporting)
              /\ open
              /\ exporting' = Some(handlers'[Len(handlers')].format))]_vars
    /\ [][ExportEnds =>
             (/\ IsNull(exporting')
              /\ Len(handlers') = Len(handlers) - 1
              /\ IF outcomes'[Len(outcomes')].result = "returned"
                 THEN ~open' ELSE open' = open)]_vars
    /\ [][(~IsNull(exporting) /\ ~ExportEnds) => exporting' = exporting]_vars

\* a json export that threw left the dialog open and the flag null, then a pdf
\* export succeeded and closed the dialog
C20_Witness ==
    /\ Len(outcomes) = 2
    /\ outcomes[1] = [format |-> "json", result |-> "threw"]
    /\ outcomes[2] = [format |-> "pdf", result |-> "returned"]
    /\ IsNull(exporting)
    /\ ~open

====
